---- MODULE Spec2Model ----
(***************************************************************************)
(* Worksheet runtime of helloeave/worksheets (src/worksheets.go): typed    *)
(* fields, computed and constrained fields, slices of references and the   *)
(* reverse parent pointers, as a state machine over a small heap.          *)
(* The resolver of definitions, the rounding of numbers, and the session   *)
(* that saves and updates worksheets in the versioned store follow, each   *)
(* with a specification of its own.                                        *)
(*                                                                         *)
(* The definitions loaded are                                              *)
(*                                                                         *)
(*   enum color { "red", }                                                 *)
(*   worksheet child {                                                     *)
(*     1:amount number[1] constrained_by { return amount < 2 }             *)
(*     2:owner  parent                                                     *)
(*     3:peer   child                                                      *)
(*     4:deep   color     computed_by { return peer.owner.kind }           *)
(*     5:seed   number[0]                                                  *)
(*     6:swing  number[0] computed_by { return seed - first_of(swing, 0) } *)
(*   }                                                                     *)
(*   worksheet parent {                                                    *)
(*     1:child  child                                                      *)
(*     3:kids   []child                                                    *)
(*     4:total  number[0] computed_by { return child.amount }              *)
(*     5:copies []child   computed_by { return kids }                      *)
(*     6:kind   color                                                      *)
(*     7:flag   bool      constrained_by { return child.amount < 2 }       *)
(*   }                                                                     *)
(***************************************************************************)
EXTENDS Integers, Sequences, FiniteSets, TLC

\* ------------------------------------------------------------------ bounds

\* Largest rank a slice hands out: Append is not called on a slice whose
\* lastRank has reached it.
MaxRank == 2

\* Numbers that are rounded have a mantissa within -MaxMantissa..MaxMantissa
\* and a scale within 0..MaxScale.
MaxMantissa == 60
MaxScale == 4

\* Save and Update are not called once the versions of the live worksheets
\* add up to MaxVersion.
MaxVersion == 4

\* ------------------------------------------------------------------ heap

\* The worksheets the callers may create, each with the definition it is
\* created from and the UUID the generator draws for it.
Worksheets == {"p1", "c1", "c2"}

defOf(w) == IF w = "p1" THEN "parent" ELSE "child"

uuidOf(w) == IF w = "p1" THEN "uuid-p1" ELSE IF w = "c1" THEN "uuid-c1" ELSE "uuid-c2"

\* The texts uuid.NewV4().String() can return.
UUIDv4 == {"uuid-p1", "uuid-c1", "uuid-c2"}

\* ------------------------------------------------------------------ values

vUndefined == [k |-> "undefined"]
\* A Go nil Value, as Append and Del hand to handleDependentUpdates.
vNil == [k |-> "nil"]
\* No key in the data map.
NoEntry == [k |-> "absent"]

NewText(s) == [k |-> "text", text |-> s]
NewBool(b) == [k |-> "bool", bool |-> b]
\* value * 10^-scale
NewNumber(m, s) == [k |-> "number", value |-> m, scale |-> s]
NewNumberFromInt(n) == NewNumber(n, 0)
WsValue(w) == [k |-> "ws", ws |-> w]
MkSlice(r, els) == [k |-> "slice", lastRank |-> r, elements |-> els]
newSlice == MkSlice(0, <<>>)

\* ------------------------------------------------------------------ types

TextType == [t |-> "text", scale |-> 0, elements |-> {}, name |-> "", slice |-> FALSE]
BoolType == [t |-> "bool", scale |-> 0, elements |-> {}, name |-> "", slice |-> FALSE]
NumberType(s) == [t |-> "number", scale |-> s, elements |-> {}, name |-> "", slice |-> FALSE]
EnumType(n, els) == [t |-> "enum", scale |-> 0, elements |-> els, name |-> n, slice |-> FALSE]
DefType(n) == [t |-> "definition", scale |-> 0, elements |-> {}, name |-> n, slice |-> FALSE]
\* A slice type: its element type with the slice flag set.
SliceType(e) == [e EXCEPT !.slice = TRUE]
elementType(typ) == [typ EXCEPT !.slice = FALSE]

indexId == -2
indexVersion == -1

\* ------------------------------------------------------------------ expressions

\* op "none": no expression; "selector": args[1]; "less": args[1] < lit;
\* "minusFirstOf": args[1] - first_of(args[2], lit).
NoExpr == [op |-> "none", args |-> <<>>, lit |-> vUndefined]
ESelector(path) == [op |-> "selector", args |-> <<path>>, lit |-> vUndefined]
ELess(path, lit) == [op |-> "less", args |-> <<path>>, lit |-> lit]
EMinusFirstOf(a, b, lit) == [op |-> "minusFirstOf", args |-> <<a, b>>, lit |-> lit]

Field(d, i, n, typ, comp, cons) ==
    [def |-> d, index |-> i, name |-> n, typ |-> typ, computedBy |-> comp, constrainedBy |-> cons]

Definitions == {"parent", "child"}

fieldsOf(d) ==
    {Field(d, indexId, "id", TextType, NoExpr, NoExpr),
     Field(d, indexVersion, "version", NumberType(0), NoExpr, NoExpr)}
    \cup
    (IF d = "child"
     THEN {Field(d, 1, "amount", NumberType(1), NoExpr, ELess(<<"amount">>, NewNumberFromInt(2))),
           Field(d, 2, "owner", DefType("parent"), NoExpr, NoExpr),
           Field(d, 3, "peer", DefType("child"), NoExpr, NoExpr),
           Field(d, 4, "deep", EnumType("color", {"red"}),
                 ESelector(<<"peer", "owner", "kind">>), NoExpr),
           Field(d, 5, "seed", NumberType(0), NoExpr, NoExpr),
           Field(d, 6, "swing", NumberType(0),
                 EMinusFirstOf(<<"seed">>, <<"swing">>, NewNumberFromInt(0)), NoExpr)}
     ELSE {Field(d, 1, "child", DefType("child"), NoExpr, NoExpr),
           Field(d, 3, "kids", SliceType(DefType("child")), NoExpr, NoExpr),
           Field(d, 4, "total", NumberType(0), ESelector(<<"child", "amount">>), NoExpr),
           Field(d, 5, "copies", SliceType(DefType("child")), ESelector(<<"kids">>), NoExpr),
           Field(d, 6, "kind", EnumType("color", {"red"}), NoExpr, NoExpr),
           Field(d, 7, "flag", BoolType, NoExpr,
                 ELess(<<"child", "amount">>, NewNumberFromInt(2)))})

AllFields == UNION {fieldsOf(d) : d \in Definitions}
Indexes == {f.index : f \in AllFields}
FieldNames == {f.name : f \in AllFields}

\* def.fieldsByName and def.fieldsByIndex of every definition.
fieldsByNameOf ==
    [d \in Definitions |->
        [n \in {f.name : f \in fieldsOf(d)} |-> CHOOSE f \in fieldsOf(d) : f.name = n]]
fieldsByIndexOf ==
    [d \in Definitions |->
        [i \in {f.index : f \in fieldsOf(d)} |-> CHOOSE f \in fieldsOf(d) : f.index = i]]

hasField(d, n) == n \in DOMAIN fieldsByNameOf[d]
fieldsByName(d, n) == fieldsByNameOf[d][n]
hasIndex(d, i) == i \in DOMAIN fieldsByIndexOf[d]
fieldsByIndex(d, i) == fieldsByIndexOf[d][i]

\* ------------------------------------------------------------------ dependency graph

RECURSIVE Select(_, _)
\* The fields a selector visits, resolved against definition d: the fields of
\* the rest of the path first, then the field of this step.
Select(s, d) ==
    IF ~hasField(d, s[1]) THEN [ok |-> FALSE, path |-> <<>>]
    ELSE LET field == fieldsByName(d, s[1])
         IN IF Len(s) > 1
            THEN IF field.typ.t # "definition" THEN [ok |-> FALSE, path |-> <<>>]
                 ELSE LET sub == Select(Tail(s), field.typ.name)
                      IN IF ~sub.ok THEN sub
                         ELSE [ok |-> TRUE, path |-> Append(sub.path, <<d, s[1]>>)]
            ELSE [ok |-> TRUE, path |-> <<<<d, s[1]>>>>]

selectors(expr) == expr.args

\* The fields of a definition in ascending index order.
RECURSIVE fieldsInOrder(_)
fieldsInOrder(fs) ==
    IF fs = {} THEN <<>>
    ELSE LET f == CHOOSE x \in fs : \A y \in fs : x.index <= y.index
         IN <<f>> \o fieldsInOrder(fs \ {f})

\* How many times NewDefinitions appends computed field g to the dependents
\* of the field named by key: once per selector and per step of its path.
timesAppended(g, key) ==
    Cardinality(UNION {
        LET sel == Select(selectors(g.computedBy)[i], g.def)
        IN {<<i, j>> : j \in {n \in 1..Len(sel.path) : sel.ok /\ sel.path[n] = key}}
        : i \in 1..Len(selectors(g.computedBy))})

RECURSIVE dependentsFromTriggers(_, _)
\* Dependents lists that constrained fields join as computed fields do.
dependentsFromTriggers(fields, key) ==
    IF fields = <<>> THEN <<>>
    ELSE (IF \E s \in {Head(fields).computedBy.args[i] :
                            i \in 1..Len(Head(fields).computedBy.args)}
                      \cup {Head(fields).constrainedBy.args[i] :
                            i \in 1..Len(Head(fields).constrainedBy.args)} :
                \E n \in 1..Len(Select(s, Head(fields).def).path) :
                    Select(s, Head(fields).def).path[n] = key
          THEN <<<<Head(fields).def, Head(fields).name>>>>
          ELSE <<>>) \o dependentsFromTriggers(Tail(fields), key)

RECURSIVE dependentsFrom(_, _)
dependentsFrom(fields, key) ==
    IF fields = <<>> THEN <<>>
    ELSE LET g == Head(fields)
         IN (IF g.computedBy.op # "none"
             THEN [n \in 1..timesAppended(g, key) |-> <<g.def, g.name>>]
             ELSE <<>>) \o dependentsFrom(Tail(fields), key)

\* field.dependents after NewDefinitions (lines 153-187). No field of these
\* definitions has more than one dependent, so the order in which the maps of
\* definitions and of fields are walked changes no list.
dependentsOf(key) ==
    dependentsFrom(fieldsInOrder(fieldsOf("child")) \o fieldsInOrder(fieldsOf("parent")), key)

\* ------------------------------------------------------------------ value operations

RECURSIVE Pow10(_)
Pow10(n) == IF n <= 0 THEN 1 ELSE 10 * Pow10(n - 1)

Max(a, b) == IF a >= b THEN a ELSE b

\* The mantissa of number v at scale s >= v.scale.
atScale(v, s) == v.value * Pow10(s - v.scale)

Abs(n) == IF n < 0 THEN -n ELSE n
Sign(n) == IF n < 0 THEN -1 ELSE 1

RoundingModes == {"up", "down", "half"}

\* The digits that remain of the magnitude a when the last digits, worth
\* factor, are discarded under the mode.
roundedMagnitude(a, factor, mode) ==
    CASE mode = "down" -> a \div factor
      [] mode = "up" -> (a \div factor) + (IF a % factor # 0 THEN 1 ELSE 0)
      [] mode = "half" -> (a \div factor) + (IF 2 * (a % factor) >= factor THEN 1 ELSE 0)

\* The rounding that works on the signed mantissa: \div rounds toward minus
\* infinity, so that negative numbers do not mirror positive ones.
RoundSigned(v, mode, scale) ==
    IF scale >= v.scale THEN NewNumber(atScale(v, scale), scale)
    ELSE NewNumber(roundedMagnitude(v.value, Pow10(v.scale - scale), mode), scale)

\* Number.Round: the number at the given scale; digits are added when the
\* scale grows and discarded under the mode when it shrinks.
Round(v, mode, scale) ==
    IF scale >= v.scale THEN NewNumber(atScale(v, scale), scale)
    ELSE NewNumber(Sign(v.value)
                     * roundedMagnitude(Abs(v.value), Pow10(v.scale - scale), mode),
                   scale)

RECURSIVE Equal(_, _)
Equal(a, b) ==
    IF a.k # b.k THEN FALSE
    ELSE CASE a.k = "undefined" -> TRUE
           [] a.k = "text" -> a.text = b.text
           [] a.k = "bool" -> a.bool = b.bool
           [] a.k = "number" ->
                atScale(a, Max(a.scale, b.scale)) = atScale(b, Max(a.scale, b.scale))
           [] a.k = "ws" -> a.ws = b.ws
           [] a.k = "slice" ->
                /\ Len(a.elements) = Len(b.elements)
                /\ \A i \in 1..Len(a.elements) :
                     /\ a.elements[i].rank = b.elements[i].rank
                     /\ Equal(a.elements[i].value, b.elements[i].value)
           [] OTHER -> FALSE

RECURSIVE assignableTo(_, _)
assignableTo(value, u) ==
    CASE value.k = "undefined" -> TRUE
      [] value.k = "text" ->
           ~u.slice /\ (u.t = "text" \/ (u.t = "enum" /\ value.text \in u.elements))
      [] value.k = "bool" -> ~u.slice /\ u.t = "bool"
      [] value.k = "number" -> ~u.slice /\ u.t = "number" /\ value.scale <= u.scale
      [] value.k = "slice" ->
           /\ u.slice
           /\ \A i \in 1..Len(value.elements) :
                assignableTo(value.elements[i].value, elementType(u))
      [] value.k = "ws" -> ~u.slice /\ u.t = "definition" /\ defOf(value.ws) = u.name
      [] OTHER -> FALSE

\* A check of assignability that lets every value through.
canAssignAnything(value, typ) == "nil"

\* "nil" when the value can be assigned, the error otherwise.
canAssignTo(value, typ) == IF assignableTo(value, typ) THEN "nil" ELSE "cannot assign"

RECURSIVE extractChildWs(_)
extractChildWs(value) ==
    CASE value.k = "ws" -> <<value.ws>>
      [] value.k = "slice" ->
           IF value.elements = <<>> THEN <<>>
           ELSE extractChildWs(value.elements[1].value)
                \o extractChildWs([value EXCEPT !.elements = Tail(value.elements)])
      [] OTHER -> <<>>

\* Slice.doAppend: the element gets the next rank.
doAppend(slice, element, typ) ==
    IF ~assignableTo(element, elementType(typ))
    THEN [err |-> "cannot append", slice |-> slice]
    ELSE [err |-> "nil",
          slice |-> MkSlice(slice.lastRank + 1,
                            Append(slice.elements,
                                   [rank |-> slice.lastRank + 1, value |-> element]))]

\* Slice.doDel: index counts from 0.
doDel(slice, index) ==
    IF index < 0 \/ index >= Len(slice.elements)
    THEN [err |-> "index out of range", slice |-> slice]
    ELSE [err |-> "nil",
          slice |-> MkSlice(slice.lastRank,
                            [i \in 1..(Len(slice.elements) - 1) |->
                                IF i <= index THEN slice.elements[i] ELSE slice.elements[i + 1]])]

\* ------------------------------------------------------------------ reading

\* The element of a one-element set. A value that is used more than once is
\* bound as s \in {value}, so that it is evaluated once.
the(S) == CHOOSE y \in S : TRUE

\* Worksheet.get: the value and the field, or the error.
get(data, w, name) ==
    IF ~hasField(defOf(w), name) THEN [err |-> "unknown field", value |-> vNil]
    ELSE the({IF data[w][field.index].k = "absent"
              THEN [err |-> "nil", value |-> IF field.typ.slice THEN newSlice ELSE vUndefined]
              ELSE [err |-> "nil", value |-> data[w][field.index]] :
                field \in {fieldsByName(defOf(w), name)}})

isSliceField(w, name) == hasField(defOf(w), name) /\ fieldsByName(defOf(w), name).typ.slice

\* The slice fields of the definition of w.
sliceNames(w) == {f.name : f \in {g \in fieldsOf(defOf(w)) : g.typ.slice}}

Get(data, w, name) ==
    the({IF r.err # "nil" THEN r
         ELSE IF isSliceField(w, name) THEN [err |-> "Get on slice field", value |-> vNil]
         ELSE r :
            r \in {get(data, w, name)}})

getSlice(data, w, name) ==
    the({IF r.err # "nil" THEN r
         ELSE IF ~isSliceField(w, name)
         THEN [err |-> "GetSlice on non-slice field", value |-> vNil]
         ELSE r :
            r \in {get(data, w, name)}})

IsSet(data, w, name) ==
    IF ~hasField(defOf(w), name) THEN [err |-> "unknown field", isSet |-> FALSE]
    ELSE [err |-> "nil", isSet |-> data[w][fieldsByName(defOf(w), name).index].k # "absent"]

\* ------------------------------------------------------------------ evaluation

RECURSIVE resolve(_, _, _)
\* The value of a selector on worksheet w: the field of the first step, then
\* the rest of the path on the worksheet that field refers to.
resolve(data, w, path) ==
    the({IF Len(path) = 1 THEN v
         ELSE IF v.k = "ws" THEN resolve(data, v.ws, Tail(path))
         ELSE vUndefined :
            v \in {get(data, w, path[1]).value}})

\* a < b, the scales made the same first.
less(a, b) ==
    the({NewBool(atScale(a, s) < atScale(b, s)) : s \in {Max(a.scale, b.scale)}})

\* first_of(a, b): the first argument that is not undefined.
firstOf(a, b) == IF a.k # "undefined" THEN a ELSE b

\* a - b, at the larger of the two scales; undefined when an operand is.
minus(a, b) ==
    IF a.k = "undefined" \/ b.k = "undefined" THEN [err |-> "nil", value |-> vUndefined]
    ELSE IF a.k # "number" \/ b.k # "number" THEN [err |-> "eval", value |-> vNil]
    ELSE the({[err |-> "nil", value |-> NewNumber(atScale(a, s) - atScale(b, s), s)] :
                s \in {Max(a.scale, b.scale)}})

\* expression.compute on worksheet w.
compute(expr, data, w) ==
    the({CASE expr.op = "selector" -> [err |-> "nil", value |-> a]
           [] expr.op = "less" ->
                IF a.k = "undefined" THEN [err |-> "nil", value |-> vUndefined]
                ELSE IF a.k # "number" THEN [err |-> "eval", value |-> vNil]
                ELSE [err |-> "nil", value |-> less(a, expr.lit)]
           [] expr.op = "minusFirstOf" ->
                minus(a, firstOf(resolve(data, w, expr.args[2]), expr.lit)) :
            a \in {resolve(data, w, expr.args[1])}})

\* ------------------------------------------------------------------ parents

\* Worksheet.Id: the text at index -2; the type assertion panics on anything else.
canId(data, w) == data[w][indexId].k = "text"
Id(data, w) == data[w][indexId].text

\* parentsRefs as the set of its leaves: [name, index, id, ws] stands for
\* parents[name][index][id] = ws. A sub-map is present iff it has a leaf.
addParentViaFieldIndex(parents, data, parent, fieldIndex) ==
    {e \in parents : ~(e.name = defOf(parent) /\ e.index = fieldIndex /\ e.id = Id(data, parent))}
    \cup {[name |-> defOf(parent), index |-> fieldIndex, id |-> Id(data, parent), ws |-> parent]}

\* Whether removeParentViaFieldIndex gets past its two early returns and so
\* calls parent.Id().
removeReachesId(parents, parent, fieldIndex) ==
    \E e \in parents : e.name = defOf(parent) /\ e.index = fieldIndex

removeParentViaFieldIndex(parents, data, parent, fieldIndex) ==
    IF ~removeReachesId(parents, parent, fieldIndex) THEN parents
    ELSE {e \in parents :
            ~(e.name = defOf(parent) /\ e.index = fieldIndex /\ e.id = Id(data, parent))}

\* ------------------------------------------------------------------ writing

\* The state a call works on: data and parents of every worksheet, the
\* dependents lists, the computed fields evaluated so far (log), the
\* constraints evaluated so far (checks), the calls of set that
\* handleDependentUpdates has made and that have not returned (active), and
\* the error being returned ("nil" for none, "panic" for a panic unwinding
\* the call, "stack overflow" for a recursion that has no end: the goroutine
\* stack grows until the runtime ends the program).
mkState(data, parents, deps) ==
    [data |-> data, parents |-> parents, dependents |-> deps, log |-> <<>>, checks |-> <<>>,
     active |-> {}, err |-> "nil"]

\* The errors no caller gets back.
fatal(err) == err \in {"panic", "stack overflow"}

failed(st, e) == [st EXCEPT !.err = e]

RECURSIVE addChildren(_, _, _, _)
\* Lines 684-686: ws becomes a parent of every child of newValue.
addChildren(st, children, w, fieldIndex) ==
    IF children = <<>> THEN st
    ELSE IF ~canId(st.data, w) THEN failed(st, "panic")
    ELSE addChildren(
            [st EXCEPT !.parents[Head(children)] =
                addParentViaFieldIndex(@, st.data, w, fieldIndex)],
            Tail(children), w, fieldIndex)

RECURSIVE removeChildren(_, _, _, _)
\* Lines 689-691: ws stops being a parent of every child of oldValue.
removeChildren(st, children, w, fieldIndex) ==
    IF children = <<>> THEN st
    ELSE IF removeReachesId(st.parents[Head(children)], w, fieldIndex) /\ ~canId(st.data, w)
         THEN failed(st, "panic")
    ELSE removeChildren(
            [st EXCEPT !.parents[Head(children)] =
                removeParentViaFieldIndex(@, st.data, w, fieldIndex)],
            Tail(children), w, fieldIndex)

RECURSIVE seqOfSet(_)
seqOfSet(S) ==
    IF S = {} THEN <<>> ELSE the({<<x>> \o seqOfSet(S \ {x}) : x \in {CHOOSE y \in S : TRUE}})

\* The worksheets of a sequence of parents leaves.
wsOf(leaves) == [i \in 1..Len(leaves) |-> leaves[i].ws]

\* Lines 664-668: every parent of w of definition d, once per field index
\* under which it is recorded. The heap holds one worksheet of a definition
\* that has reference fields, so every order of this list is the same list.
allParents(parents, w, d) == wsOf(seqOfSet({e \in parents[w] : e.name = d}))

\* Lines 661-669: the worksheets whose dependentField is computed again.
allDependentsOf(st, w, dependentField) ==
    IF dependentField.def = defOf(w) THEN <<w>>
    ELSE allParents(st.parents, w, dependentField.def)

\* The store of Worksheet.set (lines 454-458).
store(st, w, index, value) ==
    [st EXCEPT !.data[w][index] = IF value.k = "undefined" THEN NoEntry ELSE value]

\* The value Worksheet.set compares with (lines 438-441).
oldValueOf(st, w, index) ==
    IF st.data[w][index].k = "absent" THEN vUndefined ELSE st.data[w][index]

logged(st, w, name) == [st EXCEPT !.log = Append(@, <<w, name>>)]

\* The constraint of field name is evaluated on worksheet w.
checked(st, w, name) == [st EXCEPT !.checks = Append(@, <<w, name>>)]

RECURSIVE set(_, _, _, _)
RECURSIVE handleDependentUpdates(_, _, _, _, _)
RECURSIVE updateDependents(_, _, _)
RECURSIVE triggerAll(_, _, _)

\* The call dependent.set(dependentField, updatedValue) on the data and
\* parents it starts from.
frame(st, w, field, value) == <<w, field.name, value, st.data, st.parents>>

\* Lines 673-679: the result of compute is set, its error returned. A call
\* of set that is made again inside itself, with the same value on the same
\* data and parents, is made again inside that call too, and so without
\* end.
setComputed(st, w, field, updated) ==
    IF updated.err # "nil" THEN failed(st, updated.err)
    ELSE IF frame(st, w, field, updated.value) \in st.active THEN failed(st, "stack overflow")
    ELSE the({[s EXCEPT !.active = st.active] :
                s \in {set([st EXCEPT !.active = @ \cup {frame(st, w, field, updated.value)}],
                           w, field, updated.value)}})

\* Lines 673-679 for one dependent worksheet.
triggerOne(st, dependentField, dependent) ==
    the({setComputed(logged(st, dependent, dependentField.name), dependent, dependentField,
                     updated) :
            updated \in {compute(dependentField.computedBy, st.data, dependent)}})

\* Lines 672-680: compute and set the dependent field on each worksheet.
triggerAll(st, dependentField, allDependents) ==
    IF allDependents = <<>> THEN st
    ELSE the({IF s.err # "nil" THEN s ELSE triggerAll(s, dependentField, Tail(allDependents)) :
                s \in {triggerOne(st, dependentField, Head(allDependents))}})

\* Lines 657-681: the loop over field.dependents.
updateDependents(st, w, deps) ==
    IF deps = <<>> THEN st
    ELSE the({IF s.err # "nil" THEN s ELSE updateDependents(s, w, Tail(deps)) :
                s \in {triggerAll(st, fieldsByName(Head(deps)[1], Head(deps)[2]),
                                  allDependentsOf(st, w,
                                                  fieldsByName(Head(deps)[1], Head(deps)[2])))}})

\* Lines 683-693: the parent pointers of the new and of the old children.
updateParents(st, w, field, oldValue, newValue) ==
    the({IF s.err # "nil" THEN s
         ELSE removeChildren(s, extractChildWs(oldValue), w, field.index) :
            s \in {addChildren(st, extractChildWs(newValue), w, field.index)}})

handleDependentUpdates(st, w, field, oldValue, newValue) ==
    the({IF s.err # "nil" THEN s ELSE updateParents(s, w, field, oldValue, newValue) :
            s \in {updateDependents(st, w, st.dependents[<<field.def, field.name>>])}})

\* A set without the comparison with the current value.
setFromAnew(st, w, field, oldValue, value) ==
    IF canAssignTo(value, field.typ) # "nil" THEN failed(st, canAssignTo(value, field.typ))
    ELSE handleDependentUpdates(store(st, w, field.index, value), w, field, oldValue, value)

\* A set that stores the value before it checks that it can be assigned.
setFromStoringFirst(st, w, field, oldValue, value) ==
    IF Equal(oldValue, value) THEN st
    ELSE IF canAssignTo(value, field.typ) # "nil"
    THEN failed(store(st, w, field.index, value), canAssignTo(value, field.typ))
    ELSE handleDependentUpdates(store(st, w, field.index, value), w, field, oldValue, value)

\* Lines 443-465 of Worksheet.set, oldValue in hand.
setFrom(st, w, field, oldValue, value) ==
    IF Equal(oldValue, value) THEN st
    ELSE IF canAssignTo(value, field.typ) # "nil" THEN failed(st, canAssignTo(value, field.typ))
    ELSE handleDependentUpdates(store(st, w, field.index, value), w, field, oldValue, value)

\* Worksheet.set
set(st, w, field, value) == setFrom(st, w, field, oldValueOf(st, w, field.index), value)

\* A panic stays a panic; any other outcome of r is replaced by err.
keepErr(r, err) == the({[s EXCEPT !.err = IF fatal(s.err) THEN s.err ELSE err] : s \in {r}})

\* A Set whose deferred function restores nothing.
rollbackSkipped(st, w, field, prevValue, err) == keepErr(st, err)

\* The deferred rollback of Set (lines 405-409): it runs on every failing
\* return and while a panic unwinds, and drops what ws.set returns.
rollback(st, w, field, prevValue, err) ==
    IF err = "stack overflow" THEN st
    ELSE keepErr(set([st EXCEPT !.err = "nil"], w, field, prevValue), err)

\* Lines 415-424: the constraint is evaluated on the written worksheet.
checkConstraint(st, w, field, prevValue, result) ==
    IF result.err # "nil" THEN rollback(st, w, field, prevValue, result.err)
    ELSE IF result.value.k = "bool" /\ result.value.bool THEN st
    ELSE rollback(st, w, field, prevValue, "not a valid value")

\* Lines 411-424, with the tentative write done.
afterTentativeSet(st, w, field, prevValue) ==
    IF st.err # "nil" THEN rollback(st, w, field, prevValue, st.err)
    ELSE the({checkConstraint(checked(st, w, field.name), w, field, prevValue, result) :
                result \in {compute(field.constrainedBy, st.data, w)}})

\* Lines 400-425: Set on a constrained field.
setConstrained(st, w, field, value, prevValue) ==
    the({afterTentativeSet(s, w, field, prevValue) : s \in {set(st, w, field, value)}})

\* A Set that does not turn slice fields away.
setFieldOnSlices(st, w, field, value) ==
    IF field.computedBy.op # "none" THEN failed(st, "cannot assign to computed field")
    ELSE IF field.constrainedBy.op # "none"
    THEN setConstrained(st, w, field, value, Get(st.data, w, field.name).value)
    ELSE set(st, w, field, value)

\* Lines 392-428 of Worksheet.Set, the field in hand.
setField(st, w, field, value) ==
    IF field.computedBy.op # "none" THEN failed(st, "cannot assign to computed field")
    ELSE IF field.typ.slice THEN failed(st, "Set on slice field")
    ELSE IF field.constrainedBy.op # "none"
    THEN setConstrained(st, w, field, value, Get(st.data, w, field.name).value)
    ELSE set(st, w, field, value)

\* Worksheet.Set
Set(st, w, name, value) ==
    IF ~hasField(defOf(w), name) THEN failed(st, "unknown field")
    ELSE setField(st, w, fieldsByName(defOf(w), name), value)

\* Worksheet.Unset
Unset(st, w, name) ==
    IF isSliceField(w, name) THEN failed(st, "Unset on slice field")
    ELSE Set(st, w, name, vUndefined)

\* An Append that starts from an empty slice whether or not the field has one.
withFreshSlice(st, w, index) == [st EXCEPT !.data[w][index] = newSlice]

\* Lines 602-606 of Append: a slice field never written gets an empty slice.
withSlice(st, w, index) ==
    IF st.data[w][index].k = "absent" THEN [st EXCEPT !.data[w][index] = newSlice] ELSE st

\* Lines 609-621 of Append, the result of doAppend in hand.
appended(st, w, field, element, r) ==
    IF r.err # "nil" THEN failed(st, r.err)
    ELSE handleDependentUpdates([st EXCEPT !.data[w][field.index] = r.slice],
                                w, field, vNil, element)

\* Lines 601-621 of Append, the slice in place.
appendTo(st, w, field, element) ==
    the({appended(st, w, field, element, r) :
            r \in {doAppend(st.data[w][field.index], element, field.typ)}})

\* Worksheet.Append
Append_(st, w, name, element) ==
    IF ~hasField(defOf(w), name) THEN failed(st, "unknown field")
    ELSE IF ~isSliceField(w, name) THEN failed(st, "Append on non-slice field")
    ELSE the({appendTo(s, w, fieldsByName(defOf(w), name), element) :
                s \in {withSlice(st, w, fieldsByName(defOf(w), name).index)}})

\* Lines 641-653 of Del, the result of doDel in hand.
deleted(st, w, field, slice, index, r) ==
    IF r.err # "nil" THEN failed(st, r.err)
    ELSE handleDependentUpdates([st EXCEPT !.data[w][field.index] = r.slice],
                                w, field, slice.elements[index + 1].value, vNil)

\* Worksheet.Del
Del(st, w, name, index) ==
    IF ~hasField(defOf(w), name) THEN failed(st, "unknown field")
    ELSE IF ~isSliceField(w, name) THEN failed(st, "Del on non-slice field")
    ELSE the({deleted(st, w, fieldsByName(defOf(w), name), slice, index, doDel(slice, index)) :
                slice \in {getSlice(st.data, w, name).value}})

\* Lines 328-332 of NewWorksheet: an error of compute is returned, an error
\* of set is dropped.
initOne(st, w, field, value) ==
    IF value.err # "nil" THEN failed(st, value.err)
    ELSE keepErr(set(st, w, field, value.value), "nil")

RECURSIVE initComputed(_, _, _)
\* Lines 326-334 of NewWorksheet: every computed field is evaluated and stored.
initComputed(st, w, fields) ==
    IF fields = <<>> THEN st
    ELSE IF Head(fields).computedBy.op = "none" THEN initComputed(st, w, Tail(fields))
    ELSE the({IF s.err # "nil" THEN s ELSE initComputed(s, w, Tail(fields)) :
                s \in {the({initOne(st, w, Head(fields), value) :
                            value \in {compute(Head(fields).computedBy, st.data, w)}})}})

\* "if err := ws.Set(...); err != nil { panic(...) }" (lines 316-323)
mustSet(st) ==
    the({IF s.err # "nil" /\ s.err # "stack overflow" THEN failed(s, "panic") ELSE s : s \in {st}})

\* Lines 320-334 of NewWorksheet, the id set.
newVersioned(st, w) ==
    the({IF s.err # "nil" THEN s ELSE initComputed(s, w, fieldsInOrder(fieldsOf(defOf(w)))) :
            s \in {mustSet(Set(st, w, "version", NewNumberFromInt(1)))}})

\* Definitions.NewWorksheet for the worksheet w of the heap.
NewWorksheet(st, w) ==
    the({IF s.err # "nil" THEN s ELSE newVersioned(s, w) :
            s \in {mustSet(Set(st, w, "id", NewText(uuidOf(w))))}})

\* ------------------------------------------------------------------ schema resolver

\* What the parser hands to NewDefinitions: a sequence of named types
\* [kind |-> "worksheet" or "enum", name |-> n, fields |-> the set of fields],
\* the type of a reference field being DefType of the name written. The
\* options are a sequence of Options, each [Plugins |-> a set of
\* [ws |-> worksheet name, field |-> field name, args |-> selectors]].

\* The sentinel of a field declared external, a plugin in its place, and an
\* expression over the given selectors.
External == [op |-> "external", args |-> <<>>, lit |-> vUndefined]
EPlugin(args) == [op |-> "plugin", args |-> args, lit |-> vUndefined]
EOver(args) == [op |-> "expression", args |-> args, lit |-> vUndefined]

WorksheetDef(n, fields) == [kind |-> "worksheet", name |-> n, fields |-> fields]
EnumDef(n) == [kind |-> "enum", name |-> n, fields |-> {}]

\* The outcome of NewDefinitions: the error, the types by name and the
\* dependents lists; defs is empty when an error is returned.
NoDefinitions(err) == [err |-> err, defs |-> <<>>, dependents |-> <<>>]

\* A collection of types that keeps the last of two types of one name.
namedTypesLastWins(allDefs, defs) ==
    IF allDefs = <<>> THEN [err |-> "nil", defs |-> defs]
    ELSE [err |-> "nil",
          defs |-> [n \in DOMAIN defs \cup {allDefs[i].name : i \in 1..Len(allDefs)} |->
                      IF \E i \in 1..Len(allDefs) : allDefs[i].name = n
                      THEN allDefs[CHOOSE i \in 1..Len(allDefs) :
                                     /\ allDefs[i].name = n
                                     /\ \A j \in (i + 1)..Len(allDefs) : allDefs[j].name # n]
                      ELSE defs[n]]]

RECURSIVE namedTypes(_, _)
\* Lines 121-128: the types by name, two types of one name being an error.
namedTypes(allDefs, defs) ==
    IF allDefs = <<>> THEN [err |-> "nil", defs |-> defs]
    ELSE IF Head(allDefs).name \in DOMAIN defs THEN [err |-> "multiple types", defs |-> defs]
    ELSE namedTypes(Tail(allDefs), (Head(allDefs).name :> Head(allDefs)) @@ defs)

isWorksheet(defs, n) == n \in DOMAIN defs /\ defs[n].kind = "worksheet"

hasFieldIn(def, n) == \E f \in def.fields : f.name = n
fieldIn(def, n) == CHOOSE f \in def.fields : f.name = n

\* The definition with field f replaced by g.
withField(defs, f, g) == [defs EXCEPT ![f.def].fields = (@ \ {f}) \cup {g}]

\* attachPluginsToFields for one plugin (lines 282-294).
attachPlugin(defs, p, field) ==
    IF field.computedBy.op # "external"
    THEN IF field.constrainedBy.op # "external"
         THEN [err |-> "plugins: field not externally defined", defs |-> defs]
         ELSE [err |-> "nil",
               defs |-> withField(defs, field, [field EXCEPT !.constrainedBy = EPlugin(p.args)])]
    ELSE [err |-> "nil",
          defs |-> withField(defs, field, [field EXCEPT !.computedBy = EPlugin(p.args)])]

\* Lines 264-275 and 282-285 for one plugin of the options.
processPlugin(defs, p) ==
    IF ~isWorksheet(defs, p.ws) THEN [err |-> "plugins: unknown worksheet", defs |-> defs]
    ELSE IF ~hasFieldIn(defs[p.ws], p.field) THEN [err |-> "plugins: unknown field", defs |-> defs]
    ELSE attachPlugin(defs, p, fieldIn(defs[p.ws], p.field))

RECURSIVE processPlugins(_, _)
\* Lines 260-276. The maps of the options are walked in an order Go does not
\* fix; the plugins attach to different fields, so that every order returns
\* an error or none alike.
processPlugins(defs, plugins) ==
    IF plugins = {} THEN [err |-> "nil", defs |-> defs]
    ELSE the({the({IF r.err # "nil" THEN r ELSE processPlugins(r.defs, plugins \ {p}) :
                    r \in {processPlugin(defs, p)}}) :
                p \in {CHOOSE q \in plugins : TRUE}})

\* processOptions (lines 251-278)
processOptions(defs, opts) ==
    IF Len(opts) = 0 THEN [err |-> "nil", defs |-> defs]
    ELSE IF Len(opts) # 1 THEN [err |-> "too many options provided", defs |-> defs]
    ELSE processPlugins(defs, opts[1].Plugins)

\* The fields of every worksheet definition.
fieldsIn(defs) == UNION {defs[n].fields : n \in {m \in DOMAIN defs : defs[m].kind = "worksheet"}}

\* Lines 135-151: a computed_by still external, then a reference (of a field
\* or of the elements of a slice field) to a type that is not defined.
checkFields(defs) ==
    IF \E f \in fieldsIn(defs) : f.computedBy.op = "external"
    THEN "missing plugin for external computed_by"
    ELSE IF \E f \in fieldsIn(defs) : f.typ.t = "definition" /\ f.typ.name \notin DOMAIN defs
    THEN "unknown type"
    ELSE "nil"

RECURSIVE selectIn(_, _, _)
\* tSelector.Select (lines 194-216) on a type of defs: a slice type stands for
\* its element type, and only a worksheet definition has fields.
selectIn(defs, s, typ) ==
    IF typ.t # "definition" \/ ~isWorksheet(defs, typ.name) THEN [ok |-> FALSE, path |-> <<>>]
    ELSE IF ~hasFieldIn(defs[typ.name], s[1]) THEN [ok |-> FALSE, path |-> <<>>]
    ELSE IF Len(s) = 1 THEN [ok |-> TRUE, path |-> <<<<typ.name, s[1]>>>>]
    ELSE the({IF ~sub.ok THEN sub
              ELSE [ok |-> TRUE, path |-> Append(sub.path, <<typ.name, s[1]>>)] :
                sub \in {selectIn(defs, Tail(s), fieldIn(defs[typ.name], s[1]).typ)}})

RECURSIVE addDependents(_, _, _)
\* Lines 180-182: the field joins the dependents of every field of the path.
addDependents(deps, path, key) ==
    IF path = <<>> THEN deps
    ELSE addDependents([deps EXCEPT ![Head(path)] = Append(@, key)], Tail(path), key)

\* Lines 160-163
fieldTrigger(field) ==
    IF field.computedBy.op # "none" THEN field.computedBy ELSE field.constrainedBy

RECURSIVE resolveSelectors(_, _, _, _)
\* Lines 170-184 for the selectors left of one field.
resolveSelectors(defs, field, sels, deps) ==
    IF sels = <<>> THEN [err |-> "nil", dependents |-> deps]
    ELSE the({IF ~sel.ok THEN [err |-> "references unknown arg", dependents |-> deps]
              ELSE resolveSelectors(defs, field, Tail(sels),
                                    IF field.computedBy.op # "none"
                                    THEN addDependents(deps, sel.path, <<field.def, field.name>>)
                                    ELSE deps) :
                sel \in {selectIn(defs, Head(sels), DefType(field.def))}})

\* Lines 160-185 for one field.
resolveField(defs, field, deps) ==
    IF fieldTrigger(field).op = "none" THEN [err |-> "nil", dependents |-> deps]
    ELSE IF Len(selectors(fieldTrigger(field))) = 0
    THEN [err |-> "has no dependencies", dependents |-> deps]
    ELSE resolveSelectors(defs, field, selectors(fieldTrigger(field)), deps)

RECURSIVE resolveFields(_, _, _)
\* Lines 154-187, the fields in the order of the sequence. Go fixes no order
\* for the two maps walked; the order decides which error is returned and the
\* order within a dependents list, nothing else.
resolveFields(defs, fields, deps) ==
    IF fields = <<>> THEN [err |-> "nil", dependents |-> deps]
    ELSE the({IF r.err # "nil" THEN r ELSE resolveFields(defs, Tail(fields), r.dependents) :
                r \in {resolveField(defs, Head(fields), deps)}})

\* Lines 153-191, the types resolved.
resolved(defs) ==
    the({IF r.err # "nil" THEN NoDefinitions(r.err)
         ELSE [err |-> "nil", defs |-> defs, dependents |-> r.dependents] :
            r \in {resolveFields(defs, seqOfSet(fieldsIn(defs)),
                                 [key \in {<<f.def, f.name>> : f \in fieldsIn(defs)} |-> <<>>])}})

\* Lines 130-151, the types by name in hand.
withOptions(named, opts) ==
    the({IF r.err # "nil" THEN NoDefinitions(r.err)
         ELSE IF checkFields(r.defs) # "nil" THEN NoDefinitions(checkFields(r.defs))
         ELSE resolved(r.defs) :
            r \in {processOptions(named, opts)}})

\* NewDefinitions on the parsed types allDefs.
NewDefinitions(allDefs, opts) ==
    the({IF r.err # "nil" THEN NoDefinitions(r.err) ELSE withOptions(r.defs, opts) :
            r \in {namedTypes(allDefs, <<>>)}})

\* ------------------------------------------------------------------ the store

\* to_version of the interval that holds the live value.
MaxInt == 2147483647

\* A literal of the store: the kind, and the text, the mantissa and scale, or
\* the <<rank, literal>> pairs that the kind writes.
Lit(l, text, num, scale, of) ==
    [l |-> l, text |-> text, num |-> num, scale |-> scale, of |-> of]

RECURSIVE literal(_, _)
\* Value.String(): a text in quotes, true or false, a number with the digits
\* of its scale, a slice as [rank:literal,...], a reference as *:<id>.
literal(data, v) ==
    CASE v.k = "text" -> Lit("text", v.text, 0, 0, <<>>)
      [] v.k = "bool" -> Lit("bool", IF v.bool THEN "true" ELSE "false", 0, 0, <<>>)
      [] v.k = "number" -> Lit("number", "", v.value, v.scale, <<>>)
      [] v.k = "ws" -> Lit("ref", Id(data, v.ws), 0, 0, <<>>)
      [] v.k = "slice" ->
           Lit("slice", "", 0, 0,
               [n \in 1..Len(v.elements) |->
                   <<v.elements[n].rank, literal(data, v.elements[n].value)>>])
      [] OTHER -> Lit("undefined", "", 0, 0, <<>>)

\* The rows of the tables worksheets and worksheet_values; the serial id of a
\* values row is its place in the sequence of rows.
rWorksheet(id, version, name) == [Id |-> id, Version |-> version, Name |-> name]
rValue(id, index, from, to, value) ==
    [WorksheetId |-> id, Index |-> index, FromVersion |-> from, ToVersion |-> to,
     Value |-> value]

EmptyDb == [worksheets |-> {}, values |-> <<>>]

\* The places of the rows of worksheet id at index i.
rowsAt(values, id, i) ==
    {n \in 1..Len(values) : values[n].WorksheetId = id /\ values[n].Index = i}

isStored(db, id) == \E r \in db.worksheets : r.Id = id
rowOf(db, id) == CHOOSE r \in db.worksheets : r.Id = id

\* Worksheet.Version
Version(data, w) == data[w][indexVersion].value

RECURSIVE ascending(_)
\* The indexes of a set, lowest first.
ascending(S) ==
    IF S = {} THEN <<>>
    ELSE the({<<i>> \o ascending(S \ {i}) : i \in {CHOOSE x \in S : \A y \in S : x <= y}})

\* diff: the indexes at which orig and data of worksheet w disagree.
diff(orig, data, w) ==
    {i \in Indexes :
        IF orig[w][i].k # "absent" /\ data[w][i].k # "absent"
        THEN ~Equal(orig[w][i], data[w][i])
        ELSE (orig[w][i].k = "absent") # (data[w][i].k = "absent")}

RECURSIVE intervalsOfDeclared(_, _, _, _)
\* Intervals for the declared fields only, none for the id and the version.
intervalsOfDeclared(data, w, indexes, from) ==
    IF indexes # <<>> /\ Head(indexes) < 0 THEN intervalsOfDeclared(data, w, Tail(indexes), from)
    ELSE [n \in 1..Len(indexes) |->
            rValue(Id(data, w), indexes[n], from, MaxInt, literal(data, data[w][indexes[n]]))]

\* One open interval from version from for each of the indexes that has a value.
intervals(data, w, indexes, from) ==
    [n \in 1..Len(indexes) |->
        rValue(Id(data, w), indexes[n], from, MaxInt, literal(data, data[w][indexes[n]]))]

\* A transaction of a session: the tables and the worksheets as it sees them,
\* the worksheets visited (seen) and written (saved), and the error.
begin(db, data, orig) ==
    [db |-> db, data |-> data, orig |-> orig, seen |-> {}, saved |-> {}, err |-> "nil"]

\* A worksheet the store does not know: its row and an interval from version 1
\* for every value it has.
insert(tx, w) ==
    [tx EXCEPT
        !.db.worksheets = @ \cup {rWorksheet(Id(tx.data, w), 1, defOf(w))},
        !.db.values = @ \o intervals(tx.data, w,
                                     ascending({i \in Indexes : tx.data[w][i].k # "absent"}), 1),
        !.saved = @ \cup {w}]

\* Every open interval of worksheet id ends at version v.
closedAtEveryIndex(values, id, indexes, v) ==
    [n \in 1..Len(values) |->
        IF values[n].WorksheetId = id /\ values[n].ToVersion = MaxInt
        THEN [values[n] EXCEPT !.ToVersion = v]
        ELSE values[n]]

\* The open intervals of worksheet id at the indexes end at version v.
closed(values, id, indexes, v) ==
    [n \in 1..Len(values) |->
        IF /\ values[n].WorksheetId = id
           /\ values[n].Index \in indexes
           /\ values[n].ToVersion = MaxInt
        THEN [values[n] EXCEPT !.ToVersion = v]
        ELSE values[n]]

\* The new intervals are inserted and the open ones are left open.
writeWithoutClosing(tx, w, v, changed) ==
    the({[t EXCEPT !.db.values =
              @ \o intervals(t.data, w,
                             ascending({i \in changed \cup {indexVersion} :
                                          t.data[w][i].k # "absent"}),
                             v + 1)] :
            t \in {[tx EXCEPT !.data[w][indexVersion] = NewNumberFromInt(v + 1)]}})

\* The in-memory version becomes v + 1; the intervals of the changed indexes
\* and of the version end at v, and those that have a value start anew.
writeIntervals(tx, w, v, changed) ==
    the({[t EXCEPT !.db.values =
              closed(@, Id(t.data, w), changed \cup {indexVersion}, v)
              \o intervals(t.data, w,
                           ascending({i \in changed \cup {indexVersion} :
                                        t.data[w][i].k # "absent"}),
                           v + 1)] :
            t \in {[tx EXCEPT !.data[w][indexVersion] = NewNumberFromInt(v + 1)]}})

\* A re-save that takes the version from the tables of the transaction itself.
resaveRowUnchecked(tx, w, v, committed) ==
    [tx EXCEPT !.db.worksheets =
                   (@ \ {rowOf(tx.db, Id(tx.data, w))}) \cup {rWorksheet(Id(tx.data, w), v + 1, defOf(w))},
               !.saved = @ \cup {w}]

\* The row is saved with version v + 1 when the store holds it at version v,
\* the version of the worksheet in memory; a conflict otherwise.
resaveRow(tx, w, v, committed) ==
    IF rowOf(committed, Id(tx.data, w)).Version # v THEN [tx EXCEPT !.err = "conflict"]
    ELSE [tx EXCEPT !.db.worksheets =
                        (@ \ {rowOf(tx.db, Id(tx.data, w))})
                        \cup {rWorksheet(Id(tx.data, w), v + 1, defOf(w))},
                    !.saved = @ \cup {w}]

\* Update of one stored worksheet: nothing when its diff is empty.
update(tx, w) ==
    IF diff(tx.orig, tx.data, w) = {} THEN tx
    ELSE resaveRow(writeIntervals(tx, w, Version(tx.data, w), diff(tx.orig, tx.data, w)),
                   w, Version(tx.data, w), tx.db)

\* A worksheet is inserted when the store does not know its id, updated when
\* it does.
persistOne(tx, w) ==
    IF tx.err # "nil" THEN tx
    ELSE IF ~isStored(tx.db, Id(tx.data, w)) THEN insert(tx, w)
    ELSE update(tx, w)

RECURSIVE childrenOf(_, _, _)
\* The worksheets the values of w at the indexes refer to.
childrenOf(data, w, indexes) ==
    IF indexes = <<>> THEN <<>>
    ELSE extractChildWs(data[w][Head(indexes)]) \o childrenOf(data, w, Tail(indexes))

RECURSIVE persistOnEveryPath(_, _)
RECURSIVE persistAllOnEveryPath(_, _)
\* A traversal that remembers the worksheets on the path from the root only.
persistOnEveryPath(tx, w) ==
    IF tx.err # "nil" \/ w \in tx.seen THEN tx
    ELSE the({persistOne([t EXCEPT !.seen = tx.seen], w) :
                t \in {persistAllOnEveryPath([tx EXCEPT !.seen = @ \cup {w}],
                                             childrenOf(tx.data, w, ascending(Indexes)))}})

persistAllOnEveryPath(tx, children) ==
    IF children = <<>> THEN tx
    ELSE persistAllOnEveryPath(
            [persistOnEveryPath(tx, Head(children)) EXCEPT !.seen = tx.seen], Tail(children))

RECURSIVE persist(_, _)
RECURSIVE persistAll(_, _)
\* The worksheets reachable from w, each once (seen is the identity map of
\* the session), the worksheets a worksheet refers to before the worksheet.
persist(tx, w) ==
    IF tx.err # "nil" \/ w \in tx.seen THEN tx
    ELSE the({persistOne(t, w) :
                t \in {persistAll([tx EXCEPT !.seen = @ \cup {w}],
                                  childrenOf(tx.data, w, ascending(Indexes)))}})

persistAll(tx, children) ==
    IF children = <<>> THEN tx
    ELSE persistAll(persist(tx, Head(children)), Tail(children))

\* A commit that leaves orig as it was.
committedWithoutOrig(tx) == tx

\* The transaction committed: orig of every worksheet written is its data.
committed(tx) ==
    [tx EXCEPT !.orig = [w \in Worksheets |-> IF w \in tx.saved THEN tx.data[w] ELSE @[w]]]

\* Session.Save(root) and Session.Update(root) in a transaction that commits
\* when no error is returned.
Save(db, data, orig, root) == committed(persist(begin(db, data, orig), root))

Update(db, data, orig, root) == committed(persist(begin(db, data, orig), root))

\* Whether the value of worksheet w at index i refers to worksheet c.
holdsRef(dat, w, i, c) ==
    \E n \in 1..Len(extractChildWs(dat[w][i])) : extractChildWs(dat[w][i])[n] = c

\* ------------------------------------------------------------------ marshaling

\* JSON as jsonMarshalValue writes it: null, a string, true or false, and an
\* array. A text is written as a string, a number as the string of
\* Number.String(), and a worksheet as the string of its id.
JNull == [j |-> "null"]
JString(text) == [j |-> "string", s |-> text]
JBool(b) == [j |-> "bool", b |-> b]
JArray(items) == [j |-> "array", items |-> items]

\* An entry of marshaler.graph that is nil.
NoBytes == [j |-> "nil"]

\* The orders in which range may visit the map ws.data.
Ranges == {"up", "down"}

RECURSIVE descending(_)
descending(S) ==
    IF S = {} THEN <<>>
    ELSE the({<<i>> \o descending(S \ {i}) : i \in {CHOOSE x \in S : \A y \in S : x >= y}})

\* The keys of ws.data in the order of the range.
keysOf(dat, w, range) ==
    IF range = "up" THEN ascending({i \in Indexes : dat[w][i].k # "absent"})
    ELSE descending({i \in Indexes : dat[w][i].k # "absent"})

\* The marshaler: graph by id, the object being written (b) and the value
\* written last (j); err is "panic" once Id() has panicked.
newMarshaler == [graph |-> <<>>, b |-> <<>>, j |-> JNull, err |-> "nil"]

RECURSIVE marshal(_, _, _, _)
RECURSIVE marshalFields(_, _, _, _, _, _)
RECURSIVE jsonMarshalValue(_, _, _, _)
RECURSIVE jsonMarshalValueIdOnly(_, _, _, _)
RECURSIVE jsonMarshalElements(_, _, _, _, _)

\* Worksheet.jsonMarshalValue that writes the id and goes no further.
jsonMarshalValueIdOnly(m, dat, value, range) ==
    CASE m.err # "nil" -> m
      [] value.k = "undefined" -> [m EXCEPT !.j = JNull]
      [] value.k = "text" -> [m EXCEPT !.j = JString(value.text)]
      [] value.k = "number" -> [m EXCEPT !.j = JString(<<value.value, value.scale>>)]
      [] value.k = "bool" -> [m EXCEPT !.j = JBool(value.bool)]
      [] value.k = "slice" -> jsonMarshalElements(m, dat, value.elements, <<>>, range)
      [] value.k = "ws" ->
           IF ~canId(dat, value.ws) THEN [m EXCEPT !.err = "panic"]
           ELSE [m EXCEPT !.j = JString(Id(dat, value.ws))]
      [] OTHER -> [m EXCEPT !.err = "panic"]

\* jsonMarshalValue of each kind of value (lines 82-119).
jsonMarshalValue(m, dat, value, range) ==
    CASE m.err # "nil" -> m
      [] value.k = "undefined" -> [m EXCEPT !.j = JNull]
      [] value.k = "text" -> [m EXCEPT !.j = JString(value.text)]
      [] value.k = "number" -> [m EXCEPT !.j = JString(<<value.value, value.scale>>)]
      [] value.k = "bool" -> [m EXCEPT !.j = JBool(value.bool)]
      [] value.k = "slice" -> jsonMarshalElements(m, dat, value.elements, <<>>, range)
      [] value.k = "ws" ->
           IF ~canId(dat, value.ws) THEN [m EXCEPT !.err = "panic"]
           ELSE [marshal(m, dat, value.ws, range) EXCEPT !.j = JString(Id(dat, value.ws))]
      [] OTHER -> [m EXCEPT !.err = "panic"]

\* Lines 100-109: the elements of a slice, in their order.
jsonMarshalElements(m, dat, elements, items, range) ==
    IF m.err # "nil" THEN m
    ELSE IF elements = <<>> THEN [m EXCEPT !.j = JArray(items)]
    ELSE the({jsonMarshalElements(r, dat, Tail(elements), Append(items, r.j), range) :
                r \in {jsonMarshalValue(m, dat, Head(elements).value, range)}})

\* Lines 65-77: the fields of ws.data, each under the name of its index.
marshalFields(m, dat, w, indexes, b, range) ==
    IF m.err # "nil" THEN m
    ELSE IF indexes = <<>> THEN [m EXCEPT !.b = b]
    ELSE the({marshalFields(r, dat, w, Tail(indexes),
                            (fieldsByIndex(defOf(w), Head(indexes)).name :> r.j) @@ b, range) :
                r \in {jsonMarshalValue(m, dat, dat[w][Head(indexes)], range)}})

\* marshaler.marshal (lines 55-80): a worksheet whose id is in the graph is
\* done; otherwise its entry is nil while its fields are written.
marshal(m, dat, w, range) ==
    IF m.err # "nil" THEN m
    ELSE IF ~canId(dat, w) THEN [m EXCEPT !.err = "panic"]
    ELSE IF Id(dat, w) \in DOMAIN m.graph THEN m
    ELSE the({IF r.err # "nil" THEN r
              ELSE [r EXCEPT !.graph = [id \in DOMAIN r.graph |->
                                           IF id = Id(dat, w) THEN r.b ELSE r.graph[id]]] :
                r \in {marshalFields([m EXCEPT !.graph = (Id(dat, w) :> NoBytes) @@ @],
                                     dat, w, keysOf(dat, w, range), <<>>, range)}})

\* Worksheet.MarshalJSON (lines 26-49): the top-level object, by id.
MarshalJSON(dat, w, range) == marshal(newMarshaler, dat, w, range)

\* ------------------------------------------------------------------ scanning into structs

\* NewStructScanner: no destination yet.
NewStructScanner == [dests |-> {}]

\* What callers pass as dest: a pointer to a struct none of whose fields
\* names a field of the worksheet, and a struct passed by value.
Dests == {"*struct", "struct"}

\* wsDestinationMap.newDestination: a second destination for an id panics.
newDestination(ss, destId) ==
    IF destId \in ss.dests THEN [ss |-> ss, err |-> "panic"]
    ELSE [ss |-> [ss EXCEPT !.dests = @ \cup {destId}], err |-> "nil"]

\* StructScanner.StructScan: ws.Id() panics on a worksheet without a text id;
\* structScan finds no field to set in the struct.
StructScan(ss, dat, w, dest) ==
    IF dest # "*struct" THEN [ss |-> ss, err |-> "dest must be a *struct"]
    ELSE IF ~canId(dat, w) THEN [ss |-> ss, err |-> "panic"]
    ELSE newDestination(ss, Id(dat, w))

\* Worksheet.StructScan: a scanner of its own.
WorksheetStructScan(dat, w, dest) == StructScan(NewStructScanner, dat, w, dest)

\* Worksheet.Id and Worksheet.Version: the type assertion panics when the
\* entry is missing or of another type.
callId(dat, w) == IF canId(dat, w) THEN "nil" ELSE "panic"
callVersion(dat, w) == IF dat[w][indexVersion].k = "number" THEN "nil" ELSE "panic"

\* ------------------------------------------------------------------ feature files

\* Most steps a background or a scenario of a document has, and most
\* scenarios a document has.
MaxSteps == 3
MaxScenarios == 2

\* A Go slice: the array it points into, its length and its capacity. The
\* arrays are numbered in the order they are allocated; a nil slice points
\* into none.
nilSlice == [arr |-> 0, len |-> 0, cap |-> 0]

\* The elements of slice sl.
elems(arrays, sl) == [k \in 1..sl.len |-> arrays[sl.arr][k]]

\* The capacity append gives the array it allocates for a slice of capacity
\* cap that has to hold needed elements: twice the capacity, or what is
\* needed when that is more.
grown(cap, needed) == IF needed > 2 * cap THEN needed ELSE 2 * cap

\* append(sl, xs...) on the arrays of h: the elements are written behind the
\* slice into its own array when the capacity allows it, and into a new
\* array that starts with a copy of the slice otherwise. The cells of an
\* array that no slice has reached yet hold "zero".
append(h, sl, xs) ==
    IF xs = <<>> THEN [h EXCEPT !.out = sl]
    ELSE IF sl.len + Len(xs) <= sl.cap
    THEN [arrays |-> [h.arrays EXCEPT ![sl.arr] =
                        [k \in 1..sl.cap |->
                            IF k > sl.len /\ k <= sl.len + Len(xs) THEN xs[k - sl.len] ELSE @[k]]],
          out |-> [sl EXCEPT !.len = sl.len + Len(xs)]]
    ELSE the({[arrays |-> Append(h.arrays,
                                 [k \in 1..c |->
                                    IF k <= sl.len THEN h.arrays[sl.arr][k]
                                    ELSE IF k <= sl.len + Len(xs) THEN xs[k - sl.len]
                                    ELSE "zero"]),
               out |-> [arr |-> Len(h.arrays) + 1, len |-> sl.len + Len(xs), cap |-> c]] :
                c \in {grown(sl.cap, sl.len + Len(xs))}})

\* The step k of child c of the document, and the command stepToCommand makes
\* of it: every step is "create" of a worksheet named after the step.
stepAt(c, k) == [step |-> <<c, k>>]
stepToCommand(step) == [create |-> step.step]

\* The steps of child c as the parser hands them over, in array c.
stepsOf(doc, c) == [k \in 1..doc[c].steps |-> stepAt(c, k)]

\* No feature is being read.
NoFeature == [pc |-> "none"]

\* ReadFeature has parsed doc: the steps of child c are a slice of array c,
\* of the capacity the parser gave it, and docToScenarios is at its first
\* child.
parsedFeature(doc) ==
    [pc |-> "children", doc |-> doc, child |-> 1,
     arrays |-> [c \in 1..Len(doc) |->
                    [k \in 1..doc[c].cap |-> IF k <= doc[c].steps THEN stepAt(c, k) ELSE "zero"]],
     bgSteps |-> nilSlice, bgCommands |-> nilSlice, scenarios |-> <<>>, merged |-> 0,
     ran |-> <<>>]

RECURSIVE commandsFrom(_, _, _)
\* Lines 996-1002 and 1009-1015: the commands of the steps are appended one
\* by one.
commandsFrom(h, sl, steps) ==
    IF steps = <<>> THEN [h EXCEPT !.out = sl]
    ELSE the({commandsFrom(r, r.out, Tail(steps)) :
                r \in {append(h, sl, <<stepToCommand(Head(steps))>>)}})

\* The slice the parser made of the steps of child c.
parserSlice(f, c) == [arr |-> c, len |-> f.doc[c].steps, cap |-> f.doc[c].cap]

\* Lines 994-1008: a scenario gets its steps and the commands made of them.
scenarioChild(f, c) ==
    the({[f EXCEPT !.arrays = r.arrays,
                   !.scenarios = Append(@, [name |-> c, steps |-> parserSlice(f, c),
                                            commands |-> r.out]),
                   !.child = c + 1] :
            r \in {commandsFrom([arrays |-> f.arrays, out |-> nilSlice], nilSlice,
                                stepsOf(f.doc, c))}})

\* Lines 1009-1017: the commands of the background are appended to
\* bgCommands, and bgSteps are its steps.
backgroundChild(f, c) ==
    the({[f EXCEPT !.arrays = r.arrays, !.bgCommands = r.out,
                   !.bgSteps = parserSlice(f, c), !.child = c + 1] :
            r \in {commandsFrom([arrays |-> f.arrays, out |-> nilSlice], f.bgCommands,
                                stepsOf(f.doc, c))}})

\* Lines 1022-1025 for scenario i: the steps and the commands of the
\* background are put before its own.
merge(f, i) ==
    the({the({[f EXCEPT !.arrays = cmds.arrays,
                        !.scenarios[i].steps = stps.out,
                        !.scenarios[i].commands = cmds.out,
                        !.merged = i] :
                cmds \in {append([arrays |-> stps.arrays, out |-> nilSlice], f.bgCommands,
                                 elems(stps.arrays, f.scenarios[i].commands))}}) :
            stps \in {append([arrays |-> f.arrays, out |-> nilSlice], f.bgSteps,
                             elems(f.arrays, f.scenarios[i].steps))}})

RECURSIVE runCommands(_, _)
\* Lines 930-934 with cCreate.run (lines 802-817): the worksheets the
\* commands create, or the error of a worksheet created twice.
runCommands(sheets, commands) ==
    IF commands = <<>> THEN [sheets |-> sheets, err |-> "nil"]
    ELSE IF Head(commands).create \in sheets THEN [sheets |-> sheets, err |-> "already created"]
    ELSE runCommands(sheets \cup {Head(commands).create}, Tail(commands))

\* Scenario.Run (lines 927-936): the context is a copy, and its sheets are a
\* new map.
Run(f, i) ==
    the({[f EXCEPT !.ran = Append(@, [scenario |-> i, sheets |-> r.sheets, err |-> r.err])] :
            r \in {runCommands({}, elems(f.arrays, f.scenarios[i].commands))}})

\* ------------------------------------------------------------------ the state machine

VARIABLES
    data,        \* data[w][i]: ws.data of worksheet w, NoEntry where the map has no key i
    parents,     \* parents[w]: ws.parents of worksheet w
    live,        \* the worksheets NewWorksheet has returned
    dependents,  \* dependents[<<def, name>>]: field.dependents, set by NewDefinitions
    last,        \* the kind of error the last mutating call returned, "nil" for none
    callers,     \* what the callers of this run pass: worksheets, field names, values
    rounding,    \* a number, the mode and scale to round it with, and the result
    schema,      \* parsed types and options, and what NewDefinitions returns for them
    orig,        \* orig[w][i]: ws.orig of worksheet w, the data the store holds of it
    db,          \* the committed rows of the tables worksheets and worksheet_values
    sessions,    \* the sessions open in concurrent transactions, each with its copy
    scanner,     \* the StructScanner the callers share: the ids it has destinations for
    feature      \* the feature being read: the document, the slices and arrays built
                 \* from it, the scenarios returned and the scenarios run

vars ==
    <<data, parents, live, dependents, last, callers, rounding, schema, orig, db, sessions,
      scanner, feature>>

\* The variables no operation on worksheets writes.
apart == <<rounding, schema, orig, db, sessions, scanner, feature>>

FieldKeys == {<<f.def, f.name>> : f \in AllFields}

\* The values callers pass: those of the run and every live worksheet.
Values == callers.values \cup {WsValue(w) : w \in live}

current == mkState(data, parents, dependents)

\* The kind of an error: a value that cannot be assigned or appended, an
\* index outside the slice, a constraint that rejects the write, a failing
\* evaluation, a panic, and an operation the field does not allow.
kindOf(err) ==
    CASE err = "nil" -> "nil"
      [] err = "panic" -> "panic"
      [] err = "stack overflow" -> "stack overflow"
      [] err \in {"cannot assign", "cannot append"} -> "TypeError"
      [] err = "index out of range" -> "IndexError"
      [] err = "not a valid value" -> "ConstraintViolation"
      [] err = "eval" -> "EvalError"
      [] OTHER -> "UsageError"

\* The call returned st.
returns(st) ==
    /\ data' = st.data
    /\ parents' = st.parents
    /\ last' = kindOf(st.err)
    /\ UNCHANGED <<dependents, callers>>
    /\ UNCHANGED apart

\* The names callers pass to worksheet w: the fields of its definition among
\* the names of the run, and the name that no definition declares.
namesOn(w) == {n \in callers.names : hasField(defOf(w), n) \/ n \notin FieldNames}

\* Nothing is being rounded.
NoRounding == [value |-> vNil, mode |-> "none", scale |-> 0, result |-> vNil]

\* The definitions of this module are not being resolved anew.
NoSchema == [allDefs |-> <<>>, opts |-> <<>>, result |-> NoDefinitions("none")]

\* The definitions loaded and no worksheet created.
Heap(heap, names, values) ==
    /\ data = [w \in Worksheets |-> [i \in Indexes |-> NoEntry]]
    /\ parents = [w \in Worksheets |-> {}]
    /\ live = {}
    /\ dependents = [key \in FieldKeys |-> dependentsOf(key)]
    /\ last = "nil"
    /\ callers = [heap |-> heap, names |-> names, values |-> values]

\* Nothing is stored and no session is open.
NoStore ==
    /\ orig = [w \in Worksheets |-> [i \in Indexes |-> NoEntry]]
    /\ db = EmptyDb
    /\ sessions = <<>>
    /\ scanner = NewStructScanner
    /\ feature = NoFeature

\* The state after NewDefinitions has returned and before any worksheet exists.
Loaded(heap, names, values) ==
    /\ Heap(heap, names, values)
    /\ rounding = NoRounding
    /\ schema = NoSchema
    /\ NoStore

\* The names callers use on worksheets that are not persisted: every declared
\* field but the references from a child to its owner and to its peer, the
\* field computed through them, and the seed with the field computed from it.
DeclaredNames == FieldNames \ {"id", "version", "owner", "peer", "deep", "seed", "swing"}

AnyValues ==
    {vUndefined, NewNumberFromInt(1), NewNumber(10, 1), NewNumber(100, 2), NewNumberFromInt(2),
     NewBool(TRUE), NewText("red"), NewText("zz")}

\* One parent and one child; callers use every declared field name and an
\* unknown one, with values of every kind.
Init == Loaded({"p1", "c1"}, DeclaredNames \cup {"nosuch"}, AnyValues)

\* One parent and two children; callers write the reference fields and the
\* amounts the computed fields read.
InitRefs == Loaded({"p1", "c1", "c2"}, {"child", "kids", "amount"}, {vUndefined, NewNumber(10, 1)})

\* One parent and one child; callers also name the reserved fields.
InitReserved ==
    Loaded({"p1", "c1"}, {"id", "version", "child"}, {vUndefined, NewNumberFromInt(0)})

\* A panic ends the program, and so does a stack that has grown beyond its
\* limit.
running == ~fatal(last)

DoNewWorksheet ==
    \E w \in callers.heap \ live :
        \E st \in {NewWorksheet(current, w)} :
            /\ running
            /\ returns(st)
            /\ live' = IF st.err = "nil" THEN live \cup {w} ELSE live

DoSet ==
    \E w \in live : \E name \in namesOn(w), value \in Values :
        /\ running
        /\ \E st \in {Set(current, w, name, value)} : returns(st)
        /\ UNCHANGED live

DoUnset ==
    \E w \in live : \E name \in namesOn(w) :
        /\ running
        /\ \E st \in {Unset(current, w, name)} : returns(st)
        /\ UNCHANGED live

\* The rank a slice would hand out next stays within MaxRank.
rankLeft(w, name) ==
    isSliceField(w, name) => get(data, w, name).value.lastRank < MaxRank

DoAppend ==
    \E w \in live : \E name \in namesOn(w), element \in Values \ {vUndefined} :
        /\ running
        /\ rankLeft(w, name)
        /\ \E st \in {Append_(current, w, name, element)} : returns(st)
        /\ UNCHANGED live

DoDel ==
    \E w \in live : \E name \in namesOn(w), index \in -1..(MaxRank - 1) :
        /\ running
        /\ \E st \in {Del(current, w, name, index)} : returns(st)
        /\ UNCHANGED live

\* Get, GetSlice and IsSet write nothing.
DoGet ==
    \E w \in live : \E name \in namesOn(w) :
        /\ running
        /\ Get(data, w, name).err \in {"nil", "unknown field", "Get on slice field"}
        /\ UNCHANGED vars

DoGetSlice ==
    \E w \in live : \E name \in namesOn(w) :
        /\ running
        /\ getSlice(data, w, name).err \in {"nil", "unknown field", "GetSlice on non-slice field"}
        /\ UNCHANGED vars

DoIsSet ==
    \E w \in live : \E name \in namesOn(w) :
        /\ running
        /\ IsSet(data, w, name).err \in {"nil", "unknown field"}
        /\ UNCHANGED vars

Next ==
    \/ DoNewWorksheet
    \/ DoSet
    \/ DoUnset
    \/ DoAppend
    \/ DoDel
    \/ DoGet
    \/ DoGetSlice
    \/ DoIsSet

Spec == Init /\ [][Next]_vars

SpecRefs == InitRefs /\ [][Next]_vars

SpecReserved == InitReserved /\ [][Next]_vars

\* ------------------------------------------------------------------ saving and updating

\* One parent and one child, which may refer to each other; callers write the
\* slice of children, the reference to the owner and the amount, and save or
\* update either worksheet, every call in a transaction of its own that
\* commits.
InitStore ==
    Loaded({"p1", "c1"}, {"kids", "owner", "amount"},
           {NewNumberFromInt(0), NewNumberFromInt(1)})

RECURSIVE reach(_, _)
\* The worksheets reachable from those of S through the values of dat.
reach(dat, S) ==
    IF \A w \in S : \A i \in Indexes : \A c \in Worksheets : holdsRef(dat, w, i, c) => c \in S
    THEN S
    ELSE reach(dat, S \cup {c \in Worksheets :
                                \E w \in S : \E i \in Indexes : holdsRef(dat, w, i, c)})

RECURSIVE versionsOf(_, _)
\* The versions of the worksheets of S added up.
versionsOf(dat, S) ==
    IF S = {} THEN 0
    ELSE the({Version(dat, w) + versionsOf(dat, S \ {w}) : w \in {CHOOSE x \in S : TRUE}})

versionsLeft == versionsOf(data, live) < MaxVersion

\* The callers of a store write values of the type of the field.
StoreSet ==
    \E w \in live : \E name \in namesOn(w) \ sliceNames(w), value \in Values :
        /\ running
        /\ assignableTo(value, fieldsByName(defOf(w), name).typ)
        /\ \E st \in {Set(current, w, name, value)} : returns(st)
        /\ UNCHANGED live

StoreUnset ==
    \E w \in live : \E name \in namesOn(w) \ sliceNames(w) :
        /\ running
        /\ \E st \in {Unset(current, w, name)} : returns(st)
        /\ UNCHANGED live

StoreAppend ==
    \E w \in live : \E name \in namesOn(w) \cap sliceNames(w), element \in Values :
        /\ running
        /\ rankLeft(w, name)
        /\ assignableTo(element, elementType(fieldsByName(defOf(w), name).typ))
        /\ \E st \in {Append_(current, w, name, element)} : returns(st)
        /\ UNCHANGED live

\* The callers of a store delete elements that the slice has.
StoreDel ==
    \E w \in live : \E name \in namesOn(w) \cap sliceNames(w), index \in 0..(MaxRank - 1) :
        /\ running
        /\ index < Len(get(data, w, name).value.elements)
        /\ \E st \in {Del(current, w, name, index)} : returns(st)
        /\ UNCHANGED live

\* The transaction of the call has committed.
commits(tx) ==
    /\ tx.err = "nil"
    /\ data' = tx.data
    /\ orig' = tx.orig
    /\ db' = tx.db
    /\ UNCHANGED <<parents, live, dependents, last, callers, rounding, schema, sessions, scanner, feature>>

DoSave ==
    \E root \in live :
        /\ running
        /\ versionsLeft
        /\ \E tx \in {Save(db, data, orig, root)} : commits(tx)

\* Update is called on worksheets that are stored.
DoUpdate ==
    \E root \in live :
        /\ running
        /\ versionsLeft
        /\ \A w \in reach(data, {root}) : isStored(db, Id(data, w))
        /\ \E tx \in {Update(db, data, orig, root)} : commits(tx)

NextStore ==
    \/ DoNewWorksheet
    \/ StoreSet
    \/ StoreUnset
    \/ StoreAppend
    \/ DoSave
    \/ DoUpdate

SpecStore == InitStore /\ [][NextStore]_vars

\* One parent and one child; callers append to the slice of children and
\* delete from it, write the amount, and save and update.
InitDiff ==
    Loaded({"p1", "c1"}, {"kids", "amount"}, {NewNumberFromInt(0), NewNumberFromInt(1)})

NextDiff ==
    \/ DoNewWorksheet
    \/ StoreSet
    \/ StoreUnset
    \/ StoreAppend
    \/ StoreDel
    \/ DoSave
    \/ DoUpdate

SpecDiff == InitDiff /\ [][NextDiff]_vars

\* ------------------------------------------------------------------ marshaling graphs

\* One parent and two children; callers write the references from the parent
\* to the children, alone and in the slice, and from a child to its owner,
\* and marshal any worksheet.
InitMarshal == Loaded({"p1", "c1", "c2"}, {"child", "kids", "owner"}, {vUndefined})

\* The call returned err and wrote nothing.
reads(err) ==
    /\ last' = kindOf(err)
    /\ UNCHANGED <<data, parents, live, dependents, callers>>
    /\ UNCHANGED apart

DoMarshalJSON ==
    \E w \in live, range \in Ranges :
        /\ running
        /\ reads(MarshalJSON(data, w, range).err)

NextMarshal ==
    \/ DoNewWorksheet
    \/ DoSet
    \/ DoUnset
    \/ DoAppend
    \/ DoDel
    \/ DoMarshalJSON

SpecMarshal == InitMarshal /\ [][NextMarshal]_vars

\* ------------------------------------------------------------------ every public operation

\* One parent and one child; callers name the reference of the parent and
\* the reserved field id, call every operation that is not a Must, and share
\* one StructScanner.
InitPublic == Loaded({"p1", "c1"}, {"id", "child"}, {vUndefined})

DoId == \E w \in live : running /\ reads(callId(data, w))

DoVersion == \E w \in live : running /\ reads(callVersion(data, w))

DoWorksheetStructScan ==
    \E w \in live, dest \in Dests :
        running /\ reads(WorksheetStructScan(data, w, dest).err)

DoStructScan ==
    \E w \in live, dest \in Dests :
        \E r \in {StructScan(scanner, data, w, dest)} :
            /\ running
            /\ scanner' = r.ss
            /\ last' = kindOf(r.err)
            /\ UNCHANGED <<data, parents, live, dependents, callers, rounding, schema, orig, db,
                           sessions, feature>>

NextPublic ==
    \/ DoNewWorksheet
    \/ DoSet
    \/ DoUnset
    \/ DoAppend
    \/ DoDel
    \/ DoGet
    \/ DoGetSlice
    \/ DoIsSet
    \/ DoId
    \/ DoVersion
    \/ DoMarshalJSON
    \/ DoWorksheetStructScan
    \/ DoStructScan

SpecPublic == InitPublic /\ [][NextPublic]_vars

\* ------------------------------------------------------------------ concurrent transactions

\* The sessions, each opened against a transaction of its own.
Sessions == {"t1", "t2"}

\* The worksheet of the heap that has the id.
withId(id) == CHOOSE w \in Worksheets : uuidOf(w) = id

\* A literal of a field that is not a slice, parsed back into its value.
parsed(lit) ==
    CASE lit.l = "text" -> NewText(lit.text)
      [] lit.l = "bool" -> NewBool(lit.text = "true")
      [] lit.l = "number" -> NewNumber(lit.num, lit.scale)
      [] lit.l = "ref" -> WsValue(withId(lit.text))
      [] OTHER -> vUndefined

\* Session.Load: the data of worksheet w as the open intervals of the tables
\* have it, the other worksheets not being loaded.
Load(tables, w) ==
    [x \in Worksheets |->
        [i \in Indexes |->
            IF x = w /\ \E n \in rowsAt(tables.values, uuidOf(w), i) :
                            tables.values[n].ToVersion = MaxInt
            THEN parsed(tables.values[CHOOSE n \in rowsAt(tables.values, uuidOf(w), i) :
                                         tables.values[n].ToVersion = MaxInt].Value)
            ELSE NoEntry]]

\* A load in progress: the tables read, the worksheets materialised so far
\* (objs, each with the id, the definition and the data, a reference being
\* the place of a worksheet in objs), the identity map of the session from
\* ids to places, and the value or place being returned.
NewLoad(tables) == [tables |-> tables, objs |-> <<>>, map |-> {}, val |-> vNil]

\* The place of the open interval of worksheet id at index i, 0 for none.
openAt(values, id, i) ==
    IF \E n \in rowsAt(values, id, i) : values[n].ToVersion = MaxInt
    THEN CHOOSE n \in rowsAt(values, id, i) : values[n].ToVersion = MaxInt
    ELSE 0

\* A slice read back has handed out the ranks up to the largest it holds.
lastRankOf(elements) ==
    IF elements = <<>> THEN 0
    ELSE CHOOSE r \in {elements[n].rank : n \in 1..Len(elements)} :
            \A n \in 1..Len(elements) : elements[n].rank <= r

RECURSIVE loadWs(_, _)
RECURSIVE loadWsOnPath(_, _)
RECURSIVE loadFields(_, _, _, _)
RECURSIVE loadValue(_, _)
RECURSIVE loadElements(_, _, _)

\* A literal parsed into a value, the worksheets it refers to being loaded.
loadValue(ld, lit) ==
    CASE lit.l = "ref" -> the({[r EXCEPT !.val = WsValue(r.val)] : r \in {loadWs(ld, lit.text)}})
      [] lit.l = "slice" -> loadElements(ld, lit.of, <<>>)
      [] OTHER -> [ld EXCEPT !.val = parsed(lit)]

\* The elements of a slice literal, in their order, after those loaded.
loadElements(ld, pairs, loaded) ==
    IF pairs = <<>> THEN [ld EXCEPT !.val = MkSlice(lastRankOf(loaded), loaded)]
    ELSE the({loadElements(r, Tail(pairs),
                           Append(loaded, [rank |-> Head(pairs)[1], value |-> r.val])) :
                r \in {loadValue(ld, Head(pairs)[2])}})

\* The values of worksheet id, at place n, from its open intervals.
loadFields(ld, n, id, indexes) ==
    IF indexes = <<>> THEN ld
    ELSE IF openAt(ld.tables.values, id, Head(indexes)) = 0
         THEN loadFields(ld, n, id, Tail(indexes))
         ELSE the({loadFields([r EXCEPT !.objs[n].data[Head(indexes)] = r.val],
                              n, id, Tail(indexes)) :
                     r \in {loadValue(ld, ld.tables.values[
                                 openAt(ld.tables.values, id, Head(indexes))].Value)}})

\* A load that remembers the worksheets on the path from the root only.
loadWsOnPath(ld, id) ==
    IF \E e \in ld.map : e[1] = id
    THEN [ld EXCEPT !.val = (CHOOSE e \in ld.map : e[1] = id)[2]]
    ELSE the({[r EXCEPT !.val = (CHOOSE e \in r.map : e[1] = id)[2], !.map = ld.map] :
                r \in {loadFields(
                          [ld EXCEPT !.objs = Append(@, [id |-> id,
                                                         def |-> rowOf(ld.tables, id).Name,
                                                         data |-> [i \in Indexes |-> NoEntry]]),
                                     !.map = @ \cup {<<id, Len(ld.objs) + 1>>}],
                          Len(ld.objs) + 1, id, ascending(Indexes))}})

\* Session.Load: the worksheet with the id, materialised once in the session
\* with every worksheet it reaches.
loadWs(ld, id) ==
    IF \E e \in ld.map : e[1] = id
    THEN [ld EXCEPT !.val = (CHOOSE e \in ld.map : e[1] = id)[2]]
    ELSE the({[r EXCEPT !.val = (CHOOSE e \in r.map : e[1] = id)[2]] :
                r \in {loadFields(
                          [ld EXCEPT !.objs = Append(@, [id |-> id,
                                                         def |-> rowOf(ld.tables, id).Name,
                                                         data |-> [i \in Indexes |-> NoEntry]]),
                                     !.map = @ \cup {<<id, Len(ld.objs) + 1>>}],
                          Len(ld.objs) + 1, id, ascending(Indexes))}})

\* A session that holds nothing, and what it keeps from one transaction to
\* the next: the versions from which its updates have committed.
Idle(won) ==
    [pc |-> "idle", data |-> <<>>, orig |-> <<>>, view |-> EmptyDb, base |-> 0,
     err |-> "nil", won |-> won]

\* The child created, given the amount 0 and saved.
StoredChild ==
    Save(EmptyDb,
         Set(NewWorksheet(mkState([w \in Worksheets |-> [i \in Indexes |-> NoEntry]],
                                  [w \in Worksheets |-> {}],
                                  [key \in FieldKeys |-> dependentsOf(key)]),
                          "c1"),
             "c1", "amount", NewNumberFromInt(0)).data,
         [w \in Worksheets |-> [i \in Indexes |-> NoEntry]],
         "c1")

\* The child is stored at version 1 and two sessions are about to load it.
InitConcurrent ==
    /\ data = StoredChild.data
    /\ orig = StoredChild.orig
    /\ db = StoredChild.db
    /\ parents = [w \in Worksheets |-> {}]
    /\ live = {"c1"}
    /\ dependents = [key \in FieldKeys |-> dependentsOf(key)]
    /\ last = "nil"
    /\ callers = [heap |-> {"c1"}, names |-> {"amount"},
                  values |-> {NewNumberFromInt(0), NewNumberFromInt(1)}]
    /\ rounding = NoRounding
    /\ schema = NoSchema
    /\ sessions = [t \in Sessions |-> Idle({})]
    /\ scanner = NewStructScanner
    /\ feature = NoFeature

\* The session has taken the step; the worksheets of the process that saved
\* the child are not touched.
steps(t, s) ==
    /\ sessions' = [sessions EXCEPT ![t] = s]
    /\ UNCHANGED <<data, parents, live, dependents, last, callers, rounding, schema, orig, scanner, feature>>

\* The session loads the child in a new transaction.
TxLoad ==
    \E t \in Sessions :
        /\ sessions[t].pc = "idle"
        /\ rowOf(db, uuidOf("c1")).Version < MaxVersion
        /\ \E copy \in {Load(db, "c1")} :
             steps(t, [sessions[t] EXCEPT !.pc = "loaded", !.data = copy, !.orig = copy,
                                          !.base = Version(copy, "c1")])
        /\ UNCHANGED db

\* The caller of the session changes the amount of its copy.
TxSet ==
    \E t \in Sessions, value \in callers.values :
        /\ sessions[t].pc = "loaded"
        /\ ~Equal(value, sessions[t].data["c1"][1])
        /\ \E st \in {Set(mkState(sessions[t].data, parents, dependents), "c1", "amount", value)} :
             /\ st.err = "nil"
             /\ steps(t, [sessions[t] EXCEPT !.data = st.data])
        /\ UNCHANGED db

\* Update, first part: the intervals are written in the transaction of the
\* session, where no other session sees them.
TxWrite ==
    \E t \in Sessions :
        /\ sessions[t].pc = "loaded"
        /\ diff(sessions[t].orig, sessions[t].data, "c1") # {}
        /\ \E tx \in {writeIntervals(begin(db, sessions[t].data, sessions[t].orig), "c1",
                                      Version(sessions[t].data, "c1"),
                                      diff(sessions[t].orig, sessions[t].data, "c1"))} :
             steps(t, [sessions[t] EXCEPT !.pc = "written", !.data = tx.data, !.view = tx.db])
        /\ UNCHANGED db

\* Update, second part: the row is saved again against the version the store
\* has committed. The session holds the row from here to the end of its
\* transaction, so that another session waits with this step. On a conflict
\* the transaction is aborted and what it wrote is gone.
TxResave ==
    \E t \in Sessions :
        /\ sessions[t].pc = "written"
        /\ \A u \in Sessions \ {t} : sessions[u].pc # "resaved"
        /\ \E tx \in {resaveRow(begin(sessions[t].view, sessions[t].data, sessions[t].orig),
                                  "c1", sessions[t].base, db)} :
             IF tx.err # "nil"
             THEN steps(t, [sessions[t] EXCEPT !.pc = "aborted", !.err = tx.err,
                                               !.view = EmptyDb])
             ELSE steps(t, [sessions[t] EXCEPT !.pc = "resaved", !.view = tx.db])
        /\ UNCHANGED db

\* The transaction commits: the store has what the session wrote, and orig
\* of the copy is its data.
TxCommit ==
    \E t \in Sessions :
        /\ sessions[t].pc = "resaved"
        /\ db' = sessions[t].view
        /\ steps(t, [sessions[t] EXCEPT !.pc = "committed", !.orig = sessions[t].data,
                                         !.won = @ \cup {sessions[t].base}])

\* The caller goes on with a new transaction, after a commit as after a
\* conflict.
TxRetry ==
    \E t \in Sessions :
        /\ sessions[t].pc \in {"committed", "aborted"}
        /\ steps(t, Idle(sessions[t].won))
        /\ UNCHANGED db

NextConcurrent ==
    \/ TxLoad
    \/ TxSet
    \/ TxWrite
    \/ TxResave
    \/ TxCommit
    \/ TxRetry

SpecConcurrent == InitConcurrent /\ [][NextConcurrent]_vars

\* ------------------------------------------------------------------ resolving schemas

\* The types and options NewDefinitions is called with below.
\*
\*   worksheet a { 1:ref <type>  2:x number[0] <computed_by or constrained_by> }
\*   worksheet b { 1:back a      2:y number[0] <computed_by> }
\*
\* where the second type may also be named a, or be an enum.

RefTypes ==
    {DefType("b"), SliceType(DefType("b")), DefType("nosuch"), SliceType(DefType("nosuch"))}

SelectorLists ==
    {<<>>, <<<<"x">>>>, <<<<"ref", "y">>>>, <<<<"nosuch">>>>, <<<<"ref">>, <<"ref", "y">>>>}

\* computed_by and constrained_by of a.x
TriggersOfX ==
    {<<NoExpr, NoExpr>>, <<External, NoExpr>>, <<NoExpr, External>>}
    \cup {<<EOver(sels), NoExpr>> : sels \in SelectorLists}
    \cup {<<NoExpr, EOver(sels)>> : sels \in SelectorLists}

\* computed_by of y
TriggersOfY == {NoExpr, External, EOver(<<<<"back", "x">>>>), EOver(<<<<"y">>>>)}

FirstTypes ==
    {WorksheetDef("a", {Field("a", 1, "ref", typ, NoExpr, NoExpr),
                        Field("a", 2, "x", NumberType(0), t[1], t[2])}) :
        typ \in RefTypes, t \in TriggersOfX}

SecondTypes ==
    {WorksheetDef(n, {Field(n, 1, "back", DefType("a"), NoExpr, NoExpr),
                      Field(n, 2, "y", NumberType(0), comp, NoExpr)}) :
        n \in {"a", "b"}, comp \in TriggersOfY}
    \cup {EnumDef("a"), EnumDef("b")}

PluginOfX == [ws |-> "a", field |-> "x", args |-> <<<<"ref", "y">>>>]
PluginOfY == [ws |-> "b", field |-> "y", args |-> <<<<"back", "x">>>>]

OptionLists ==
    {<<>>, <<[Plugins |-> {}], [Plugins |-> {}]>>}
    \cup {<<[Plugins |-> ps]>> :
            ps \in {{}, {PluginOfX}, {PluginOfY}, {PluginOfX, PluginOfY},
                    {[PluginOfX EXCEPT !.args = <<>>]},
                    {[PluginOfX EXCEPT !.ws = "nosuch"]},
                    {[PluginOfX EXCEPT !.field = "nosuch"]}}}

Pending == NoDefinitions("pending")

InitSchema ==
    /\ Heap({}, {}, {})
    /\ rounding = NoRounding
    /\ NoStore
    /\ \E first \in FirstTypes, second \in SecondTypes, opts \in OptionLists :
         schema = [allDefs |-> <<first, second>>, opts |-> opts, result |-> Pending]

DoNewDefinitions ==
    /\ schema.result = Pending
    /\ schema' = [schema EXCEPT !.result = NewDefinitions(schema.allDefs, schema.opts)]
    /\ UNCHANGED <<data, parents, live, dependents, last, callers, rounding, orig, db, sessions, scanner, feature>>

NextSchema == DoNewDefinitions

SpecSchema == InitSchema /\ [][NextSchema]_vars

\* ------------------------------------------------------------------ rounding

\* The numbers that are rounded, 1.2345 and -1.2345 among them.
Rounded ==
    {NewNumber(m, s) : m \in -MaxMantissa..MaxMantissa, s \in 0..MaxScale}
    \cup {NewNumber(12345, 4), NewNumber(-12345, 4)}

\* No worksheet; a number to round, a mode and a target scale.
InitRound ==
    /\ Heap({}, {}, {})
    /\ schema = NoSchema
    /\ NoStore
    /\ \E v \in Rounded, mode \in RoundingModes, scale \in 0..(MaxScale + 1) :
         rounding = [value |-> v, mode |-> mode, scale |-> scale, result |-> vNil]

DoRound ==
    /\ rounding.result = vNil
    /\ rounding' = [rounding EXCEPT
                        !.result = Round(rounding.value, rounding.mode, rounding.scale)]
    /\ UNCHANGED <<data, parents, live, dependents, last, callers, schema, orig, db, sessions, scanner, feature>>

NextRound == DoRound

SpecRound == InitRound /\ [][NextRound]_vars

\* ------------------------------------------------------------------ properties

\* Whether the value of worksheet W at field index i refers to worksheet C,
\* directly or as an element of a slice.
holds(dat, W, i, C) ==
    \E n \in 1..Len(extractChildWs(dat[W][i])) : extractChildWs(dat[W][i])[n] = C

\* C.parents[W.def.name][i][W.id] is W.
recorded(dat, par, W, i, C) ==
    /\ canId(dat, W)
    /\ [name |-> defOf(W), index |-> i, id |-> Id(dat, W), ws |-> W] \in par[C]

\* C1: whenever the value of a field of a worksheet W refers to a worksheet C,
\* directly or as one or more elements of a slice, C.parents records W under
\* that field index.
C1_ParentsHoldEveryReference ==
    \A W \in live, C \in live :
        \A i \in DOMAIN fieldsByIndexOf[defOf(W)] :
            holds(data, W, i, C) => recorded(data, parents, W, i, C)

\* C2: C.parents records a worksheet W under field index i only if the value
\* of W at field index i refers to C, after every call, failed or not.
C2_ParentsOnlyForReferencesHeld ==
    \A C \in live :
        \A e \in parents[C] : holds(data, e.ws, e.index, C)

\* How many times the computed field named name was evaluated on worksheet W.
timesComputed(log, W, name) == Cardinality({n \in 1..Len(log) : log[n] = <<W, name>>})

\* The worksheets on which dependent field g of a field of X is due: X itself
\* when g is a field of X's definition, the parents X.parents records otherwise.
affected(X, g) ==
    IF g.def = defOf(X) THEN {X} ELSE {e.ws : e \in {l \in parents[X] : l.name = g.def}}

\* C3: a Set that returns nil and changes field f of worksheet X evaluates
\* every dependent computed field of f exactly once on each affected
\* worksheet.
C3_RecomputedOncePerWorksheet ==
    \A X \in live, name \in callers.names, value \in Values :
        (running /\ hasField(defOf(X), name)) =>
            \A r \in {Set(current, X, name, value)} :
                (r.err = "nil" /\ r.data # data) =>
                    \A key \in {dependents[<<defOf(X), name>>][n] :
                                    n \in 1..Len(dependents[<<defOf(X), name>>])} :
                        \A W \in affected(X, fieldsByName(key[1], key[2])) :
                            timesComputed(r.log, W, key[2]) = 1

\* C4: when Set returns an error because the constraint of the field did not
\* evaluate to true after the tentative write, Get of the field returns after
\* the call what it returned before it.
C4_ConstraintFailureKeepsValue ==
    \A w \in live, name \in callers.names, value \in Values :
        (running /\ hasField(defOf(w), name)) =>
            \A r \in {Set(current, w, name, value)} :
                r.err = "not a valid value" => Get(r.data, w, name) = Get(data, w, name)

\* A constraint has rejected a write to a field that holds a value.
C4_Witness ==
    /\ last = "ConstraintViolation"
    /\ Get(data, "c1", "amount").value = NewNumberFromInt(1)

\* The call that returned r failed and left field index i of worksheet w alone.
rejected(r, w, i) == r.err # "nil" /\ r.data[w][i] = data[w][i]

\* C5: Set, Unset, Append and Del on a computed field, slice-typed or not,
\* return an error and leave the value of the field unchanged.
C5_ComputedFieldsRejectWrites ==
    \A w \in live, name \in callers.names :
        (running /\ hasField(defOf(w), name)
                 /\ fieldsByName(defOf(w), name).computedBy.op # "none") =>
            \A i \in {fieldsByName(defOf(w), name).index} :
                /\ \A value \in Values : rejected(Set(current, w, name, value), w, i)
                /\ rejected(Unset(current, w, name), w, i)
                /\ \A element \in Values \ {vUndefined} :
                      rankLeft(w, name) => rejected(Append_(current, w, name, element), w, i)
                /\ \A index \in -1..(MaxRank - 1) : rejected(Del(current, w, name, index), w, i)

\* C6: every worksheet NewWorksheet has returned keeps a UUIDv4 text at index
\* -2 and a positive integer at index -1, whatever calls follow.
C6_IdAndVersionStayValid ==
    \A w \in live :
        /\ data[w][indexId].k = "text"
        /\ data[w][indexId].text \in UUIDv4
        /\ data[w][indexVersion].k = "number"
        /\ data[w][indexVersion].scale = 0
        /\ data[w][indexVersion].value > 0

\* C7: every value in the data of a worksheet is assignable to the type of
\* the field it is stored under, values stored by recomputation included.
C7_DataAssignable ==
    \A w \in live :
        \A i \in DOMAIN fieldsByIndexOf[defOf(w)] :
            data[w][i].k # "absent" => assignableTo(data[w][i], fieldsByIndex(defOf(w), i).typ)

\* A value has just been refused as not assignable while the parent holds a
\* total stored by recomputation and a slice with an element.
C7_Witness ==
    /\ last = "TypeError"
    /\ data["p1"][4].k = "number"
    /\ data["p1"][3].k = "slice"
    /\ Len(data["p1"][3].elements) = 1

\* C8 as stated: Set with a value that is not assignable to the type of the
\* field returns an error and leaves the field unchanged, whatever the field
\* holds.
C8_NonAssignableIsRefused ==
    \A w \in live, name \in callers.names, value \in Values :
        (running /\ hasField(defOf(w), name)
                 /\ ~assignableTo(value, fieldsByName(defOf(w), name).typ)) =>
            rejected(Set(current, w, name, value), w, fieldsByName(defOf(w), name).index)

\* C8 as amended: Set with a value that is not assignable to the type of the
\* field leaves the field unchanged, and returns an error unless the value
\* equals the current value of the field.
C8_NonAssignableRefusedUnlessEqual ==
    \A w \in live, name \in callers.names, value \in Values :
        (running /\ hasField(defOf(w), name)
                 /\ ~assignableTo(value, fieldsByName(defOf(w), name).typ)) =>
            \A i \in {fieldsByName(defOf(w), name).index} :
                \A r \in {Set(current, w, name, value)} :
                    /\ r.data[w][i] = data[w][i]
                    /\ r.err = "nil" => Equal(oldValueOf(current, w, i), value)

\* A value has just been refused as not assignable while the enum field and
\* the number field hold values, and a Set of the number field to 1.00, of a
\* scale the field does not take, would return nil.
C8_Witness ==
    /\ last = "TypeError"
    /\ data["p1"][6] = NewText("red")
    /\ data["c1"][1] = NewNumberFromInt(1)
    /\ ~assignableTo(NewNumber(100, 2), fieldsByName("child", "amount").typ)
    /\ Set(current, "c1", "amount", NewNumber(100, 2)).err = "nil"

\* Whether Set accepts values for the field named name of worksheet w: the
\* field exists and is neither computed nor slice-typed.
settable(w, name) ==
    /\ hasField(defOf(w), name)
    /\ fieldsByName(defOf(w), name).computedBy.op = "none"
    /\ ~fieldsByName(defOf(w), name).typ.slice

\* Whether the constraint of the field evaluates to true on worksheet w.
constraintHolds(dat, w, field) ==
    \E c \in {compute(field.constrainedBy, dat, w)} : c.err = "nil" /\ c.value = NewBool(TRUE)

\* C9 as stated: Set of a settable field, constrained or not, to a value equal
\* to its current value returns no error and changes no data and no parents
\* entry of any worksheet.
C9_EqualValueIsNoOp ==
    \A w \in live, name \in callers.names, value \in Values :
        (running /\ settable(w, name)
                 /\ Equal(oldValueOf(current, w, fieldsByName(defOf(w), name).index), value)) =>
            \A r \in {Set(current, w, name, value)} :
                r.err = "nil" /\ r.data = data /\ r.parents = parents

\* C9 as amended: Set of a settable field to a value equal to its current
\* value changes no data and no parents entry of any worksheet and evaluates
\* no computed field; it returns no error on an unconstrained field, and on a
\* constrained field exactly when the constraint evaluates to true.
C9_EqualValueChangesNothing ==
    \A w \in live, name \in callers.names, value \in Values :
        (running /\ settable(w, name)
                 /\ Equal(oldValueOf(current, w, fieldsByName(defOf(w), name).index), value)) =>
            \A field \in {fieldsByName(defOf(w), name)} :
                \A r \in {Set(current, w, name, value)} :
                    /\ r.data = data /\ r.parents = parents /\ r.log = <<>>
                    /\ field.constrainedBy.op = "none" => r.err = "nil"
                    /\ field.constrainedBy.op # "none" =>
                          (r.err = "nil" <=> constraintHolds(data, w, field))

\* Unset of the never-set constrained field has just been refused by the
\* constraint, while the parent refers to the child and the child records it.
C9_Witness ==
    /\ last = "ConstraintViolation"
    /\ data["c1"][1].k = "absent"
    /\ data["p1"][1] = WsValue("c1")
    /\ recorded(data, parents, "p1", 1, "c1")
    /\ Set(current, "c1", "amount", vUndefined).err = "not a valid value"
    /\ Set(current, "p1", "child", WsValue("c1")).err = "nil"

\* The call that returned r failed and changed no data and no parents of any
\* worksheet.
refused(r) == r.err # "nil" /\ r.data = data /\ r.parents = parents

\* C10: an operation on the wrong kind of field returns an error and changes
\* nothing: Set and Unset on an unknown name, a computed field or a slice
\* field; Append and Del on an unknown name or a field that is no slice; Get
\* on a slice field; GetSlice on a field that is no slice.
C10_WrongKindRefused ==
    \A w \in live, name \in callers.names :
        running =>
            /\ ~settable(w, name) =>
                  /\ \A value \in Values : refused(Set(current, w, name, value))
                  /\ refused(Unset(current, w, name))
            /\ ~isSliceField(w, name) =>
                  /\ \A element \in Values \ {vUndefined} :
                        refused(Append_(current, w, name, element))
                  /\ \A index \in -1..(MaxRank - 1) : refused(Del(current, w, name, index))
                  /\ getSlice(data, w, name).err # "nil"
            /\ isSliceField(w, name) => Get(data, w, name).err # "nil"

\* A call has just been refused as the wrong operation for its field, on a
\* parent that holds a reference, a slice element and a total.
C10_Witness ==
    /\ last = "UsageError"
    /\ data["p1"][1] = WsValue("c1")
    /\ holds(data, "p1", 3, "c1")
    /\ data["p1"][4].k = "number"

\* ------------------------------------------------------------------ C11

\* The result r of rounding mantissa m (at a scale d digits above the target,
\* factor = 10^d) keeps the sign and is the magnitude truncated (down), moved
\* up when a discarded digit is not zero (up), or the nearest with ties away
\* from zero (half).
roundsAs(mode, m, factor, r) ==
    /\ (r # 0 => Sign(r) = Sign(m))
    /\ CASE mode = "down" -> Abs(r) * factor <= Abs(m) /\ Abs(m) < (Abs(r) + 1) * factor
         [] mode = "up" -> (Abs(r) - 1) * factor < Abs(m) /\ Abs(m) <= Abs(r) * factor
         [] mode = "half" ->
              /\ 2 * Abs(r) * factor - factor <= 2 * Abs(m)
              /\ 2 * Abs(m) < 2 * Abs(r) * factor + factor

negated(v) == NewNumber(-v.value, v.scale)

\* C11: rounding to scale N truncates toward zero (down), moves away from zero
\* when a discarded digit is not zero (up), goes to the nearest with ties away
\* from zero (half); the negated number rounds to the negated result; and at a
\* scale N not below the number's own the value is only padded with zeros.
C11_RoundingModes ==
    rounding.result # vNil =>
        /\ rounding.result.k = "number"
        /\ rounding.result.scale = rounding.scale
        /\ Round(negated(rounding.value), rounding.mode, rounding.scale)
             = negated(rounding.result)
        /\ IF rounding.scale >= rounding.value.scale
           THEN rounding.result.value
                  = rounding.value.value * Pow10(rounding.scale - rounding.value.scale)
           ELSE roundsAs(rounding.mode, rounding.value.value,
                         Pow10(rounding.value.scale - rounding.scale), rounding.result.value)

\* -0.5 rounded half to scale 0 is -1, and 1.2345 rounded down to scale 5 is
\* 1.23450.
C11_Witness ==
    \/ rounding = [value |-> NewNumber(-5, 1), mode |-> "half", scale |-> 0,
                   result |-> NewNumberFromInt(-1)]
    \/ rounding = [value |-> NewNumber(12345, 4), mode |-> "down", scale |-> 5,
                   result |-> NewNumber(123450, 5)]

\* ------------------------------------------------------------------ C12

ranksIncrease(slice) ==
    \A i, j \in 1..Len(slice.elements) :
        i < j => slice.elements[i].rank < slice.elements[j].rank

\* after is before with one more element, of a rank above every rank of before.
extendedBy(before, after, element) ==
    /\ Len(after.elements) = Len(before.elements) + 1
    /\ \A i \in 1..Len(before.elements) :
         /\ after.elements[i] = before.elements[i]
         /\ before.elements[i].rank < after.elements[Len(after.elements)].rank
    /\ after.elements[Len(after.elements)].value = element

\* after is before without the element at position index (from 0), the others
\* as they were and in the same order.
withoutElement(before, after, index) ==
    /\ index >= 0 /\ index < Len(before.elements)
    /\ Len(after.elements) = Len(before.elements) - 1
    /\ \A i \in 1..Len(after.elements) :
         after.elements[i] = before.elements[IF i <= index THEN i ELSE i + 1]

computedIn(r) == {<<f.def, f.name>> : f \in {g \in fieldsIn(r.defs) : g.computedBy.op # "none"}}

\* <<g, f>>: computed field g reads computed field f, g being among the
\* dependents NewDefinitions gave f.
readsDirectly(r) ==
    {p \in computedIn(r) \X computedIn(r) :
        \E n \in 1..Len(r.dependents[p[2]]) : r.dependents[p[2]][n] = p[1]}

\* R and the pairs that two steps of R join.
twice(R) == R \cup {<<x[1][1], x[2][2]>> : x \in {y \in R \X R : y[1][2] = y[2][1]}}

\* A computed field reads itself, directly or through up to three others.
cyclic(r) == \E f \in computedIn(r) : <<f, f>> \in twice(twice(readsDirectly(r)))

\* C13: NewDefinitions returns no Definitions in which a computed field
\* depends on itself, directly or through other computed fields.
C13_NoCyclicDefinitions ==
    (schema.result # Pending /\ schema.result.err = "nil") => ~cyclic(schema.result)

\* ------------------------------------------------------------------ C14

\* The constrained fields, and the fields on the paths of the selectors of
\* the constraint of g.
constrainedFields == {g \in AllFields : g.constrainedBy.op # "none"}

argumentsOf(g) ==
    UNION {{Select(selectors(g.constrainedBy)[i], g.def).path[n] :
                n \in 1..Len(Select(selectors(g.constrainedBy)[i], g.def).path)} :
            i \in 1..Len(selectors(g.constrainedBy))}

\* The call that returned r, a write to the field named name of worksheet w,
\* evaluated no constraint but that of the field written and left the value
\* of every other constrained field of every worksheet as it was.
sparesConstraints(r, w, name) ==
    /\ \A n \in 1..Len(r.checks) : r.checks[n] = <<w, name>>
    /\ \A X \in live, g \in constrainedFields :
         (defOf(X) = g.def /\ <<X, g.name>> # <<w, name>>) =>
            r.data[X][g.index] = data[X][g.index]

\* C14: a constrained field is in the dependents list of none of the
\* arguments of its constraint, and Set, Unset, Append and Del evaluate the
\* constraint of no field but the one they are called on: every other
\* constrained field keeps its value, whether or not its constraint still
\* evaluates to true.
C14_ConstraintsOnlyOnDirectWrites ==
    /\ \A g \in constrainedFields : \A key \in argumentsOf(g) :
         \A n \in 1..Len(dependents[key]) : dependents[key][n] # <<g.def, g.name>>
    /\ \A w \in live : \A name \in namesOn(w) :
         running =>
            /\ \A value \in Values : sparesConstraints(Set(current, w, name, value), w, name)
            /\ sparesConstraints(Unset(current, w, name), w, name)
            /\ \A element \in Values \ {vUndefined} :
                 rankLeft(w, name) =>
                    sparesConstraints(Append_(current, w, name, element), w, name)
            /\ \A index \in -1..(MaxRank - 1) :
                 sparesConstraints(Del(current, w, name, index), w, name)

\* flag was set while child.amount < 2 held; child has been unset since, a
\* write that returned nil, and flag is still true.
C14_Witness ==
    /\ last = "nil"
    /\ data["p1"][7] = NewBool(TRUE)
    /\ data["p1"][1].k = "absent"
    /\ ~constraintHolds(data, "p1", fieldsByName("parent", "flag"))

\* ------------------------------------------------------------------ C15

\* What the call of NewDefinitions was given.
parsedTypes == {schema.allDefs[i] : i \in 1..Len(schema.allDefs)}
parsedFields == UNION {t.fields : t \in {u \in parsedTypes : u.kind = "worksheet"}}
pluginsGiven == IF Len(schema.opts) = 1 THEN schema.opts[1].Plugins ELSE {}

sharedName ==
    \E i, j \in 1..Len(schema.allDefs) : i # j /\ schema.allDefs[i].name = schema.allDefs[j].name

unknownType ==
    \E f \in parsedFields : f.typ.t = "definition" /\ f.typ.name \notin {t.name : t \in parsedTypes}

pluginsFor(f) == {p \in pluginsGiven : p.ws = f.def /\ p.field = f.name}

externalUnbound ==
    \E f \in parsedFields :
        /\ f.computedBy.op = "external" \/ f.constrainedBy.op = "external"
        /\ pluginsFor(f) = {}

\* The selector lists of the field: those written in its computed_by or
\* constrained_by, and those of the plugins given for it when it is external.
argumentLists(f) ==
    {e.args : e \in {x \in {f.computedBy, f.constrainedBy} : x.op = "expression"}}
    \cup (IF f.computedBy.op = "external" \/ f.constrainedBy.op = "external"
          THEN {p.args : p \in pluginsFor(f)}
          ELSE {})

noArguments == \E f \in parsedFields : <<>> \in argumentLists(f)

\* The worksheet types named n, and whether a selector of one or two steps
\* names a field of worksheet d, through a reference for the second step.
worksheetsNamed(n) == {t \in parsedTypes : t.kind = "worksheet" /\ t.name = n}

resolvable(s, d) ==
    \E t \in worksheetsNamed(d) : \E f \in t.fields :
        /\ f.name = s[1]
        /\ Len(s) > 1 =>
              /\ f.typ.t = "definition"
              /\ \E u \in worksheetsNamed(f.typ.name) : \E g \in u.fields : g.name = s[2]

unresolvableSelector ==
    \E f \in parsedFields : \E args \in argumentLists(f) :
        \E i \in 1..Len(args) : ~resolvable(args[i], f.def)

rowsIn(worksheets, id) == {r \in worksheets : r.Id = id}

\* The tables hold of worksheet w what an insert writes: its row at version 1
\* and one interval from 1 to MaxInt, with the literal, for each value of dat.
insertedAs(tables, dat, w) ==
    /\ rowsIn(tables.worksheets, Id(dat, w)) = {rWorksheet(Id(dat, w), 1, defOf(w))}
    /\ \A i \in Indexes :
         IF dat[w][i].k \in {"absent", "undefined"}
         THEN rowsAt(tables.values, Id(dat, w), i) = {}
         ELSE /\ Cardinality(rowsAt(tables.values, Id(dat, w), i)) = 1
              /\ \A n \in rowsAt(tables.values, Id(dat, w), i) :
                   /\ tables.values[n].FromVersion = 1
                   /\ tables.values[n].ToVersion = MaxInt
                   /\ tables.values[n].Value = literal(dat, dat[w][i])

\* C16: Save of a worksheet whose id is not in the store inserts exactly one
\* worksheets row (id, version 1, definition name) and, for each index present
\* in data, the id and the version among them, exactly one worksheet_values
\* row from version 1 to MaxInt that holds the literal of the value; a field
\* that is undefined gets no row.
C16_SaveInsertsRowAndIntervals ==
    \A root \in live :
        (running /\ versionsLeft /\ ~isStored(db, Id(data, root))) =>
            \A tx \in {Save(db, data, orig, root)} :
                tx.err = "nil" /\ insertedAs(tx.db, data, root)

\* The parent has been saved while its only kid was the child and it referred
\* to no child otherwise: its id, its version and the slice have a row, the
\* field child has none.
C16_Witness ==
    /\ rWorksheet("uuid-p1", 1, "parent") \in db.worksheets
    /\ data["p1"][1] = NoEntry
    /\ rowsAt(db.values, "uuid-p1", 1) = {}
    /\ \E n \in rowsAt(db.values, "uuid-p1", indexId) :
         db.values[n] = rValue("uuid-p1", indexId, 1, MaxInt, Lit("text", "uuid-p1", 0, 0, <<>>))
    /\ \E n \in rowsAt(db.values, "uuid-p1", indexVersion) :
         db.values[n] = rValue("uuid-p1", indexVersion, 1, MaxInt, Lit("number", "", 1, 0, <<>>))
    /\ \E n \in rowsAt(db.values, "uuid-p1", 3) :
         db.values[n] = rValue("uuid-p1", 3, 1, MaxInt,
                               Lit("slice", "", 0, 0,
                                   <<<<1, Lit("ref", "uuid-c1", 0, 0, <<>>)>>>>))

\* Every reachable worksheet of root is stored.
allStored(root) == \A w \in reach(data, {root}) : isStored(db, Id(data, w))

\* The places of the rows written after those of before.
newRowsOf(before, after, id, i) == {n \in rowsAt(after, id, i) : n > Len(before)}

\* The transaction tx has updated worksheet w, stored at version v in the
\* tables before, at the changed indexes.
updatedAs(before, tx, w, v, changed) ==
    /\ rowsIn(tx.db.worksheets, Id(data, w)) = {rWorksheet(Id(data, w), v + 1, defOf(w))}
    /\ Version(tx.data, w) = v + 1
    /\ Len(tx.db.values) >= Len(before.values)
    /\ \A n \in 1..Len(before.values) :
         before.values[n].WorksheetId = Id(data, w) =>
            tx.db.values[n] =
                IF /\ before.values[n].Index \in changed \cup {indexVersion}
                   /\ before.values[n].ToVersion = MaxInt
                THEN [before.values[n] EXCEPT !.ToVersion = v]
                ELSE before.values[n]
    /\ \A i \in Indexes :
         IF i \in changed \cup {indexVersion} /\ tx.data[w][i].k \notin {"absent", "undefined"}
         THEN /\ Cardinality(newRowsOf(before.values, tx.db.values, Id(data, w), i)) = 1
              /\ \A n \in newRowsOf(before.values, tx.db.values, Id(data, w), i) :
                   tx.db.values[n] = rValue(Id(data, w), i, v + 1, MaxInt,
                                            literal(tx.data, tx.data[w][i]))
         ELSE newRowsOf(before.values, tx.db.values, Id(data, w), i) = {}

\* C17: Update of a stored worksheet at version v with a non-empty diff sets
\* the worksheets row and the version in memory to v + 1; for the version and
\* each changed index it ends the open interval at v and inserts an interval
\* from v + 1 to MaxInt with the new value (no row being the literal of a value
\* that is undefined); the intervals of unchanged indexes, the id among them,
\* stay as they are.
C17_UpdateClosesAndInserts ==
    \A root \in live :
        (running /\ versionsLeft /\ allStored(root)) =>
            \A tx \in {Update(db, data, orig, root)} :
                /\ tx.err = "nil"
                /\ \A w \in reach(data, {root}) :
                     /\ rowOf(db, Id(data, w)).Version = Version(data, w)
                     /\ diff(orig, data, w) # {} =>
                            updatedAs(db, tx, w, Version(data, w), diff(orig, data, w))

\* The child was stored with amount 0 and updated with amount 1: the row and
\* the worksheet are at version 2, the amount and the version have an interval
\* that ends at 1 and one from 2, the id has its interval from 1.
C17_Witness ==
    /\ rWorksheet("uuid-c1", 2, "child") \in db.worksheets
    /\ Version(data, "c1") = 2
    /\ \E n \in rowsAt(db.values, "uuid-c1", 1) :
         db.values[n] = rValue("uuid-c1", 1, 1, 1, Lit("number", "", 0, 0, <<>>))
    /\ \E n \in rowsAt(db.values, "uuid-c1", 1) :
         db.values[n] = rValue("uuid-c1", 1, 2, MaxInt, Lit("number", "", 1, 0, <<>>))
    /\ \E n \in rowsAt(db.values, "uuid-c1", indexVersion) :
         db.values[n] = rValue("uuid-c1", indexVersion, 1, 1, Lit("number", "", 1, 0, <<>>))
    /\ \E n \in rowsAt(db.values, "uuid-c1", indexVersion) :
         db.values[n] = rValue("uuid-c1", indexVersion, 2, MaxInt, Lit("number", "", 2, 0, <<>>))
    /\ \A n \in rowsAt(db.values, "uuid-c1", indexId) :
         db.values[n] = rValue("uuid-c1", indexId, 1, MaxInt, Lit("text", "uuid-c1", 0, 0, <<>>))

\* The stored worksheets.
stored == {w \in live : isStored(db, Id(data, w))}

\* Interval rows a and b have no version in common.
disjoint(a, b) == a.ToVersion < b.FromVersion \/ b.ToVersion < a.FromVersion

\* The intervals of field index i of worksheet w are pairwise disjoint and
\* lie within the versions the worksheet has had.
pairwiseDisjoint(w, i) ==
    \A n \in rowsAt(db.values, Id(data, w), i) :
        /\ 1 <= db.values[n].FromVersion
        /\ db.values[n].FromVersion <= db.values[n].ToVersion
        /\ db.values[n].FromVersion <= rowOf(db, Id(data, w)).Version
        /\ \A m \in rowsAt(db.values, Id(data, w), i) \ {n} :
              disjoint(db.values[n], db.values[m])

\* The versions of worksheet w at which field index i has an interval.
covered(w, i) ==
    {x \in 1..rowOf(db, Id(data, w)).Version :
        \E n \in rowsAt(db.values, Id(data, w), i) :
            db.values[n].FromVersion <= x /\ x <= db.values[n].ToVersion}

coversPrefix(w, i) == \A x \in covered(w, i) : \A y \in 1..x : y \in covered(w, i)

openRowsOf(w, i) == {n \in rowsAt(db.values, Id(data, w), i) : db.values[n].ToVersion = MaxInt}

\* At most one interval is open, and it holds the value the store has of the
\* field, which is orig after a commit.
openHoldsLive(w, i) ==
    /\ Cardinality(openRowsOf(w, i)) <= 1
    /\ \A n \in openRowsOf(w, i) :
         /\ orig[w][i].k \notin {"absent", "undefined"}
         /\ db.values[n].Value = literal(data, orig[w][i])

untouched(before, tx, w) ==
    /\ rowsIn(tx.db.worksheets, Id(data, w)) = rowsIn(before.worksheets, Id(data, w))
    /\ Version(tx.data, w) = Version(data, w)
    /\ Len(tx.db.values) >= Len(before.values)
    /\ \A n \in 1..Len(before.values) :
         before.values[n].WorksheetId = Id(data, w) => tx.db.values[n] = before.values[n]
    /\ \A i \in Indexes : newRowsOf(before.values, tx.db.values, Id(data, w), i) = {}

\* The open interval of every field of w that refers to a worksheet holds
\* the literal *:<id> of that worksheet.
refsAsLiterals(tables, dat, w) ==
    \A i \in Indexes :
        dat[w][i].k = "ws" =>
            \E n \in rowsAt(tables.values, Id(dat, w), i) :
                /\ tables.values[n].ToVersion = MaxInt
                /\ tables.values[n].Value = Lit("ref", Id(dat, dat[w][i].ws), 0, 0, <<>>)

\* C20: Save(root) handles every worksheet reachable from root exactly once,
\* also in a cyclic graph and in one that shares a worksheet: one the store
\* does not have is inserted at version 1; a stored one with an empty diff is
\* neither inserted again nor given a new version; a stored one with a
\* non-empty diff is updated to version v + 1, whatever happens to the
\* worksheet that refers to it; every reference is stored as *:<id>. The
\* worksheets that are not reachable are left alone.
C20_SaveHandlesEachWorksheetOnce ==
    \A root \in live :
        (running /\ versionsLeft) =>
            \A tx \in {Save(db, data, orig, root)} :
                /\ tx.err = "nil"
                /\ \A w \in reach(data, {root}) :
                     /\ refsAsLiterals(tx.db, tx.data, w)
                     /\ IF ~isStored(db, Id(data, w)) THEN insertedAs(tx.db, data, w)
                        ELSE IF diff(orig, data, w) = {} THEN untouched(db, tx, w)
                        ELSE updatedAs(db, tx, w, Version(data, w), diff(orig, data, w))
                /\ \A w \in stored \ reach(data, {root}) : untouched(db, tx, w)

\* The child was stored alone; then it was given the parent as owner, the
\* parent got the child as a kid twice, and the parent was saved: the child,
\* which the parent shares between two elements and which refers back to the
\* parent, is at version 2 with its owner stored from version 2 as the
\* literal of a reference, and the rows of the parent, at version 1, come
\* after that.
C20_Witness ==
    /\ rWorksheet("uuid-c1", 2, "child") \in db.worksheets
    /\ rWorksheet("uuid-p1", 1, "parent") \in db.worksheets
    /\ \E n \in rowsAt(db.values, "uuid-c1", 2) :
         /\ db.values[n] = rValue("uuid-c1", 2, 2, MaxInt, Lit("ref", "uuid-p1", 0, 0, <<>>))
         /\ \A m \in rowsAt(db.values, "uuid-p1", indexId) : n < m
    /\ \E n \in rowsAt(db.values, "uuid-p1", 3) :
         db.values[n] = rValue("uuid-p1", 3, 1, MaxInt,
                               Lit("slice", "", 0, 0,
                                   <<<<1, Lit("ref", "uuid-c1", 0, 0, <<>>)>>,
                                     <<2, Lit("ref", "uuid-c1", 0, 0, <<>>)>>>>))

\* No two sessions have committed an update from the same version, and the
\* store has one interval of the version for each version of the row and at
\* most one open interval for each index.
oneWinner ==
    /\ \A t \in Sessions, u \in Sessions : t # u => sessions[t].won \cap sessions[u].won = {}
    /\ Cardinality(rowsAt(db.values, uuidOf("c1"), indexVersion))
         = rowOf(db, uuidOf("c1")).Version
    /\ \A i \in Indexes :
         Cardinality({n \in rowsAt(db.values, uuidOf("c1"), i) :
                        db.values[n].ToVersion = MaxInt}) <= 1

\* A session whose update fails has found the committed version different
\* from the version it loaded, gets the conflict, and the store is as before.
loserLeavesNothing ==
    \A t \in Sessions :
        (sessions[t].pc = "written" /\ sessions'[t].pc \notin {"written", "resaved"}) =>
            /\ sessions'[t].pc = "aborted"
            /\ sessions'[t].err = "conflict"
            /\ rowOf(db, uuidOf("c1")).Version # sessions[t].base
            /\ db' = db

clean(root) ==
    \A w \in reach(data, {root}) : isStored(db, Id(data, w)) /\ diff(orig, data, w) = {}

\* The worksheets Load of root materialises in a new session.
loadedFrom(root) == loadWs(NewLoad(db), Id(data, root)).objs

\* The data of the loaded worksheets, by place.
dataOf(objs) == [n \in 1..Len(objs) |-> objs[n].data]

\* The loaded worksheets are those reachable from root, one for each id, each
\* with the definition and, at every index, the value and the literal that
\* the worksheet with its id has in memory.
sameGraph(objs, root) ==
    /\ {objs[n].id : n \in 1..Len(objs)} = {Id(data, w) : w \in reach(data, {root})}
    /\ Len(objs) = Cardinality(reach(data, {root}))
    /\ \A n \in 1..Len(objs) :
         \A w \in {withId(objs[n].id)} :
            /\ objs[n].def = defOf(w)
            /\ \A i \in Indexes :
                 /\ objs[n].data[i].k = data[w][i].k
                 /\ objs[n].data[i].k \notin {"ws", "slice"} => objs[n].data[i] = data[w][i]
                 /\ literal(dataOf(objs), objs[n].data[i]) = literal(data, data[w][i])

agree(w, i) ==
    IF orig[w][i].k = "absent" \/ data[w][i].k = "absent" THEN orig[w][i].k = data[w][i].k
    ELSE Equal(orig[w][i], data[w][i])

diffIsDisagreement == \A w \in live : (diff(orig, data, w) = {}) = (\A i \in Indexes : agree(w, i))

\* A step of a Save or an Update leaves every worksheet reachable from its
\* root with an empty diff; any other step leaves orig alone, and when it
\* changes the data of a worksheet whose diff was empty, the diff is not
\* empty after it.
diffFollowsWrites ==
    /\ (DoSave \/ DoUpdate) =>
          \E root \in live : \A w \in reach(data', {root}) : diff(orig', data', w) = {}
    /\ ~(DoSave \/ DoUpdate) =>
          /\ orig' = orig
          /\ \A w \in live :
                (diff(orig, data, w) = {} /\ data'[w] # data[w]) => diff(orig', data', w) # {}

RECURSIVE written(_, _)
\* What a field object holds for a value: a worksheet is the string of its
\* id, a slice the array of its elements.
written(dat, value) ==
    CASE value.k = "undefined" -> JNull
      [] value.k = "text" -> JString(value.text)
      [] value.k = "number" -> JString(<<value.value, value.scale>>)
      [] value.k = "bool" -> JBool(value.bool)
      [] value.k = "ws" -> JString(Id(dat, value.ws))
      [] OTHER -> JArray([n \in 1..Len(value.elements) |-> written(dat, value.elements[n].value)])

\* The completed field object of worksheet w: every key of its data under
\* the name of the field.
fieldObject(dat, w) ==
    [name \in {fieldsByIndex(defOf(w), i).name : i \in {x \in Indexes : dat[w][x].k # "absent"}} |->
        written(dat, dat[w][fieldsByName(defOf(w), name).index])]

\* C23: MarshalJSON of a worksheet terminates for every reference graph,
\* cyclic ones included, and its top-level object has exactly one key for
\* each worksheet reachable from the root through references and slices of
\* references: every reachable id is a key, there is no other key, and each
\* key maps to the completed field object of its worksheet.
C23_MarshalFlattensGraph ==
    \A root \in live, range \in Ranges :
        running =>
            \A m \in {MarshalJSON(data, root, range)} :
                /\ m.err = "nil"
                /\ DOMAIN m.graph = {Id(data, w) : w \in reach(data, {root})}
                /\ Cardinality(DOMAIN m.graph) = Cardinality(reach(data, {root}))
                /\ \A w \in reach(data, {root}) : m.graph[Id(data, w)] = fieldObject(data, w)

\* The parent refers to one child directly and holds both among its kids,
\* and both children refer back to the parent: marshaling a child gives the
\* three worksheets.
C23_Witness ==
    /\ live = {"p1", "c1", "c2"}
    /\ data["p1"][1] = WsValue("c1")
    /\ Len(get(data, "p1", "kids").value.elements) = 2
    /\ reach(data, {"c2"}) = {"p1", "c1", "c2"}
    /\ data["c1"][2] = WsValue("p1")
    /\ DOMAIN MarshalJSON(data, "c2", "down").graph = {"uuid-p1", "uuid-c1", "uuid-c2"}

\* C24: no sequence of calls to the public operations that are not Must
\* helpers, with input the callers provide, reaches a panic: every failure
\* is returned as an error.
C24_NoPanic == last # "panic"

\* ------------------------------------------------------------------ dependency paths

\* One parent and two children; callers write the references from parent to
\* child, from child to child and from child to parent, the slice of
\* children and the kind the computed field of a child reads through two
\* references. No computed field is written by a caller.
InitPaths ==
    Loaded({"p1", "c1", "c2"}, {"child", "kids", "peer", "owner", "kind"},
           {vUndefined, NewText("red")})

NextPaths ==
    \/ DoNewWorksheet
    \/ DoSet
    \/ DoUnset
    \/ DoAppend
    \/ DoDel

SpecPaths == InitPaths /\ [][NextPaths]_vars

\* The computed fields of the definition of w.
computedFieldsOf(w) == {f \in fieldsOf(defOf(w)) : f.computedBy.op # "none"}

\* Every computed field of every worksheet of dat holds what its expression
\* evaluates to on dat.
computedHold(dat) ==
    \A w \in live : \A f \in computedFieldsOf(w) :
        get(dat, w, f.name).value = compute(f.computedBy, dat, w).value

\* C25: after every successful Set, Unset, Append or Del, every computed
\* field of every worksheet holds the value its expression evaluates to on
\* the data then current, whatever the shape of the path the expression
\* reads: a field of the same worksheet, a field behind one reference, behind
\* two references, or behind a reference to a worksheet of the same
\* definition. A call that starts from such a state and returns no error
\* ends in such a state.
C25_ComputedFieldsFollowPaths ==
    [][(computedHold(data) /\ live' = live /\ last' = "nil") => computedHold(data')]_vars

\* ------------------------------------------------------------------ termination

\* One parent and two children, which may refer to each other in cycles;
\* callers write the references, the kind read through them and the seed of
\* the field that is computed from itself.
InitCycle ==
    Loaded({"p1", "c1", "c2"}, {"child", "peer", "owner", "kind", "seed"},
           {vUndefined, NewText("red"), NewNumberFromInt(0), NewNumberFromInt(1)})

SpecCycle == InitCycle /\ [][NextPaths]_vars

\* C26: every call to NewWorksheet, Set, Unset, Append and Del returns,
\* whatever the definitions NewDefinitions has accepted and also when
\* worksheets refer to each other in a cycle: the propagation through the
\* dependents never makes a call of set again inside itself on the same
\* data, which would go on until the stack of the goroutine is used up.
C26_CallsTerminate == last # "stack overflow"

\* ------------------------------------------------------------------ failing writes

\* The call returned r with an error.
returnedError(r) == r.err # "nil" /\ ~fatal(r.err)

\* The call that returned r left the data and the parents of every worksheet
\* as they were.
restored(r) == r.data = data /\ r.parents = parents

\* The fields of worksheet w that have no constraint, among the names of the
\* callers.
unconstrainedOn(w) ==
    {name \in callers.names :
        hasField(defOf(w), name) /\ fieldsByName(defOf(w), name).constrainedBy.op = "none"}

\* C27: a Set or an Unset on a field without a constraint that returns an
\* error, be it for a value that cannot be assigned or for an error of the
\* evaluation or the storing of a dependent computed field, leaves the data
\* and the parents of every worksheet as they were before the call.
C27_FailedSetChangesNothing ==
    \A w \in live : \A name \in unconstrainedOn(w), value \in Values :
        running =>
            /\ \A r \in {Set(current, w, name, value)} : returnedError(r) => restored(r)
            /\ \A r \in {Unset(current, w, name)} : returnedError(r) => restored(r)

\* The slice fields of worksheet w among the names of the callers.
sliceFieldsOn(w) == {name \in callers.names : hasField(defOf(w), name) /\ isSliceField(w, name)}

\* The call that returned r left the slice field named name of worksheet w
\* as it was: IsSet, the elements and the diff of the worksheet.
sliceUntouched(r, w, name) ==
    /\ IsSet(r.data, w, name) = IsSet(data, w, name)
    /\ getSlice(r.data, w, name).value.elements = getSlice(data, w, name).value.elements
    /\ diff(orig, r.data, w) = diff(orig, data, w)

\* C28: an Append that returns an error leaves the worksheet unchanged:
\* IsSet of the slice field, its elements and the diff of the worksheet are
\* what they were before the call, also when the slice field had never been
\* written.
C28_FailedAppendChangesNothing ==
    \A w \in live : \A name \in sliceFieldsOn(w), element \in Values \ {vUndefined} :
        (running /\ rankLeft(w, name)) =>
            \A r \in {Append_(current, w, name, element)} :
                returnedError(r) => sliceUntouched(r, w, name)

\* The fields of worksheet w that have a constraint, among the names of the
\* callers.
constrainedOn(w) ==
    {name \in callers.names :
        hasField(defOf(w), name) /\ fieldsByName(defOf(w), name).constrainedBy.op # "none"}

\* C29: a Set on a constrained field that returns an error, be it for a
\* constraint that is not true, an error of its evaluation, a value that
\* cannot be assigned or an error in a dependent, leaves the whole state as
\* it was before the call: the data of every worksheet, the computed fields
\* that depend on the field in this worksheet and in its parents included,
\* and the parents of every worksheet.
C29_FailedConstrainedSetRestoresAll ==
    \A w \in live : \A name \in constrainedOn(w), value \in Values :
        running =>
            \A r \in {Set(current, w, name, value)} : returnedError(r) => restored(r)

\* ------------------------------------------------------------------ reading features

RECURSIVE capAfter(_)
\* The capacity of a slice that n appends of one element have built from nil.
capAfter(n) ==
    IF n = 0 THEN 0
    ELSE the({IF n <= c THEN c ELSE grown(c, n) : c \in {capAfter(n - 1)}})

Background(n, cap) == [kind |-> "Background", steps |-> n, cap |-> cap]
Scenario(n) == [kind |-> "Scenario", steps |-> n, cap |-> n]

\* The scenarios a document may have after its background.
ScenarioLists ==
    UNION {[1..m -> {Scenario(n) : n \in 0..MaxSteps}] : m \in 0..MaxScenarios}

\* The documents read: a background and then the scenarios, every step one
\* that stepToCommand accepts. The parser has built the steps of the
\* background in an array that is full or in one that append has grown.
Backgrounds ==
    UNION {{Background(n, n), Background(n, capAfter(n))} : n \in 0..MaxSteps}

Docs == {<<background>> \o scenarios : background \in Backgrounds, scenarios \in ScenarioLists}

InitFeature ==
    /\ Heap({}, {}, {})
    /\ rounding = NoRounding
    /\ schema = NoSchema
    /\ orig = [w \in Worksheets |-> [i \in Indexes |-> NoEntry]]
    /\ db = EmptyDb
    /\ sessions = <<>>
    /\ scanner = NewStructScanner
    /\ \E doc \in Docs : feature = parsedFeature(doc)

\* The feature moves on; no worksheet of the heap is touched.
reading(f) ==
    /\ feature' = f
    /\ UNCHANGED <<data, parents, live, dependents, last, callers, rounding, schema, orig, db,
                   sessions, scanner>>

\* One turn of the loop over the children of the document (lines 994-1020).
DoChild ==
    /\ feature.pc = "children"
    /\ feature.child <= Len(feature.doc)
    /\ \E f \in {IF feature.doc[feature.child].kind = "Scenario"
                 THEN scenarioChild(feature, feature.child)
                 ELSE backgroundChild(feature, feature.child)} :
            reading([f EXCEPT !.pc = IF f.child > Len(f.doc) THEN "merging" ELSE "children"])

\* One turn of the loop over the scenarios (lines 1022-1025).
DoMerge ==
    /\ feature.pc = "merging"
    /\ feature.merged < Len(feature.scenarios)
    /\ reading(merge(feature, feature.merged + 1))

\* docToScenarios returns the scenarios (line 1026).
DoReturn ==
    /\ feature.pc = "merging"
    /\ feature.merged = Len(feature.scenarios)
    /\ reading([feature EXCEPT !.pc = "returned"])

\* RunFeature runs a scenario that has not been run.
DoRun ==
    /\ feature.pc = "returned"
    /\ \E i \in 1..Len(feature.scenarios) :
        /\ \A n \in 1..Len(feature.ran) : feature.ran[n].scenario # i
        /\ reading(Run(feature, i))

NextFeature ==
    \/ DoChild
    \/ DoMerge
    \/ DoReturn
    \/ DoRun

SpecFeature == InitFeature /\ [][NextFeature]_vars

\* The steps of the background of the document followed by those of its
\* scenario i, which is child i + 1.
stepsExpected(doc, i) == stepsOf(doc, 1) \o stepsOf(doc, i + 1)

commandsExpected(doc, i) ==
    [k \in 1..Len(stepsExpected(doc, i)) |-> stepToCommand(stepsExpected(doc, i)[k])]

\* Scenario i has the steps and the commands of the background followed by
\* its own.
builtAsWritten(f, i) ==
    /\ elems(f.arrays, f.scenarios[i].steps) = stepsExpected(f.doc, i)
    /\ elems(f.arrays, f.scenarios[i].commands) = commandsExpected(f.doc, i)

\* A run has created no worksheet but those of the background and of its own
\* scenario.
ranApart(f, run) ==
    run.sheets \subseteq {stepsExpected(f.doc, run.scenario)[k].step :
                            k \in 1..Len(stepsExpected(f.doc, run.scenario))}

\* C30: every scenario docToScenarios has built has as its commands, and as
\* its steps, those of the background followed by exactly its own in their
\* order, the lists of the scenarios built after it leave its lists as they
\* are, and the worksheets a run creates are those of its own scenario only.
C30_ScenariosKeepTheirLists ==
    feature.pc # "none" =>
        /\ \A i \in 1..feature.merged : builtAsWritten(feature, i)
        /\ \A n \in 1..Len(feature.ran) : ranApart(feature, feature.ran[n])

====
